---------------------------- MODULE Spec2Model ----------------------------
(***************************************************************************)
(* ClawBridge: the two resilient RPC connections (CdpBridge, the Target    *)
(* Control connection of the extension, and GatewayClient, the Gateway     *)
(* connection of the MCP server) and the ResponseRouter of the extension.  *)
(*                                                                         *)
(* Node's scheduling is modelled as it is: one action is one macrotask     *)
(* (a socket event, a timer firing, a call by the owner) together with the *)
(* promise reactions (microtasks) it queues, which run before any other    *)
(* macrotask.                                                              *)
(***************************************************************************)
EXTENDS Integers, Sequences, FiniteSets, TLC

\* ---------------------------------------------------------------- bounds
MaxSocks == 2       \* sockets one CdpBridge creates in a behaviour
MaxCalls == 2       \* calls one connection issues in a behaviour
MaxDiscover == 1    \* connect() invocations of the owner awaiting discovery at once
MaxGSocks == 6      \* sockets one GatewayClient creates in a behaviour
MaxObsCalls == 8    \* calls issued in a behaviour of the observation pipeline
MaxNotifs == 1      \* binding calls the target pushes in a behaviour
MaxCallbacks == 3   \* invocations of the router's callback in a behaviour of the router
MaxTracked == 2     \* injections tracked in a behaviour
MaxNow == 450001    \* the clock stops advancing here
MaxWatchdogRuns == 2   \* firings of the tick watchdog in a behaviour
CLOCK_STEP_MS == 150000   \* the long step of the clock
MaxCapacity == 2    \* the largest capacity an EventBuffer is constructed with
MaxPushes == 4      \* push() calls in a behaviour
MaxLimit == 2       \* the largest limit a query() is made with
MaxPolls == 6       \* polls that fit in the response timeout the caller supplies
MaxTargets == 2     \* targets in a discovery response
MaxFrames == 3      \* frames whose handling is observed

\* ------------------------------------------------------ program constants
BACKOFF_START_MS == 1000
BACKOFF_CAP_MS == 30000
CONTEXT_TIMEOUT_MS == 300000
DEFAULT_TICK_MS == 30000
DEFAULT_CAPACITY == 1000
POLL_INTERVAL_MS == 500
STABLE_POLLS == 3

\* ---------------------------------------------------------------- helpers
Min(a, b) == IF a <= b THEN a ELSE b

MapSet(f, k, v) == [x \in (DOMAIN f) \cup {k} |-> IF x = k THEN v ELSE f[x]]

MapDel(f, k) == [x \in (DOMAIN f) \ {k} |-> f[x]]

EmptyMap == [x \in {} |-> 0]

RemoveAt(seq, i) == [j \in 1..(Len(seq) - 1) |-> IF j < i THEN seq[j] ELSE seq[j + 1]]

VARIABLES
  proc,              \* the program observed: the extension or the MCP server
  \* ---- CdpBridge
  sock,              \* every WebSocket the bridge created: [st, origin, sent, bound, torn]
  ws,                \* this.ws: 0 (null) or an index of sock
  nextId,            \* this.nextId
  pending,           \* this.pending: id -> the promise (a key of calls)
  calls,             \* the promises send() returned: the unsettled ones, and
                     \* the ones the last step settled
  issued,            \* promises send() has returned so far
  closed,            \* this.closed
  backoffMs,         \* this.backoffMs
  pingTimer,         \* this.pingTimer # null
  responseCallback,  \* this.responseCallback # null
  listeners,         \* listeners registered for Runtime.bindingCalled
  timers,            \* the reconnect timers set and not yet fired: [delay, n]
  discovering,       \* connect() invocations awaiting discoverTargets, by origin
  attempts,          \* reconnects scheduled since the last successful opening
  callCap,           \* calls issued in a behaviour (a bound of the exploration)
  \* ---- ResponseRouter
  pendingMessages,   \* this.pendingMessages
  now,               \* Date.now()
  tracked,           \* every (channelId, from) trackInjection recorded, in order
  delivered,         \* every (channelId, from) handed to the response sink, in order
  pruned,            \* pruneStale has evicted a record
  notifs,            \* binding calls received from the target
  routed,            \* invocations of routeResponse
  missed,            \* routeResponse has found the queue empty
  sink,              \* the router's responseCallback # null
  \* ---- GatewayClient
  gsock,             \* every WebSocket the client created: [st, sent, hello, connects]
  gws,               \* this.ws: 0 (null) or an index of gsock
  gpending,          \* this.pending: id -> the promise (a key of gcalls)
  gcalls,            \* the promises request() returned, kept as calls is
  gissued,           \* promises request() has returned so far
  gclosed,           \* this.closed
  gbackoffMs,        \* this.backoffMs
  connectNonce,      \* this.connectNonce # null
  connectSent,       \* this.connectSent
  tickTimer,         \* this.tickTimer # null
  watches,           \* the sockets on whose handshake an interval timer was started
                     \* that is still running, in the order of their start
  lastTick,          \* this.lastTick; NoTime stands for null
  tickIntervalMs,    \* this.tickIntervalMs
  wdRuns,            \* firings of the tick watchdog so far
  gtimers,           \* the reconnect timers set and not yet fired
  gattempts,         \* reconnects scheduled since the last acknowledged handshake
  started,           \* the owner has called start()
  \* ---- EventBuffer
  buf,               \* this.buf: [ts, event, n], n the ordinal of the push
  capacity,          \* this.capacity
  pushed,            \* push() calls so far
  clearedAt,         \* the value of pushed at the last clear()
  lastQuery,         \* the query() that has just returned: its options and its result
  \* ---- getClaudeDesktopResolver (one invocation)
  resolver,          \* where the invocation is: "idle", "baselining", "injecting",
                     \* "looping" (at the loop head), "reading", "returned", "threw"
  baseline,          \* const baseline
  lastSeen,          \* let lastSeen
  stableCount,       \* let stableCount
  deadline,          \* const deadline
  reads,             \* what the last polls read, the latest last (three at most)
  polls,             \* polls made so far
  reply,             \* what the invocation returned: [text, how]
  \* ---- observation of connect()
  discovered,        \* the last discovery response a connect() went on with, and
                     \* what connect() did with it
  \* ---- observation of the message handlers
  handled,           \* the last frame a message handler was given, and what the
                     \* handler did with it
  injection,         \* the last reply to the content evaluation of injectMessage,
                     \* and what injectMessage did on it
  arrivals,          \* the names of the event frames the client's handleMessage
                     \* was given, in the order of their arrival
  \* ---- CdpBridge.on / off
  eventListeners,    \* this.eventListeners: by event name, the listeners of its Set
                     \* in insertion order
  ons,               \* calls of on() that added a listener
  heard              \* the listener invocations of the last two frames, in order

bridgeVars == <<sock, ws, nextId, pending, calls, issued, closed, backoffMs,
                pingTimer, responseCallback, listeners, timers, discovering,
                attempts, callCap>>

routerVars == <<pendingMessages, now, tracked, delivered, pruned, notifs, routed,
                missed, sink>>

gatewayVars == <<gsock, gws, gpending, gcalls, gissued, gclosed, gbackoffMs,
                 connectNonce, connectSent, tickTimer, watches, lastTick, tickIntervalMs,
                 wdRuns, gtimers, gattempts, started>>

tickVars == <<lastTick, tickIntervalMs, wdRuns>>

bufferVars == <<buf, capacity, pushed, clearedAt, lastQuery>>

resolverVars == <<resolver, baseline, lastSeen, stableCount, deadline, reads, polls,
                  reply>>

\* the components an action of the bridge, the router or the client never touches
moreSeen == <<injection, arrivals>>

seenVars == <<discovered, handled, moreSeen>>

listenerVars == <<eventListeners, ons, heard>>

otherVars == <<bufferVars, resolverVars, seenVars, listenerVars>>

vars == <<proc, bridgeVars, routerVars, gatewayVars, otherVars>>

\* ------------------------------------------------------------- CdpBridge
Origins == {"account", "service", "timer"}

\* CdpTarget, as far as connect() reads it
Targets == [type : {"page", "other"}, url : BOOLEAN]

\* the discovery lists tried: no target, or one
DiscoveryLists == {<<>>} \cup {<<tg>> : tg \in Targets}

\* what the fetch of /json/list gives: res.ok and the list
DiscoveryResults ==
  {[ok |-> FALSE, targets |-> <<>>]} \cup {[ok |-> TRUE, targets |-> l] : l \in DiscoveryLists}

SelectTarget_FirstListed(targets) == IF Len(targets) > 0 THEN 1 ELSE 0

\* targets.find((t) => t.type === "page") ?? targets[0]; 0 stands for undefined
SelectTarget(targets) ==
  IF \E i \in 1..Len(targets) : targets[i].type = "page"
  THEN CHOOSE i \in 1..Len(targets) :
         /\ targets[i].type = "page"
         /\ \A j \in 1..(i - 1) : targets[j].type # "page"
  ELSE IF Len(targets) > 0 THEN 1 ELSE 0

\* !target?.webSocketDebuggerUrl is false
Usable(targets) ==
  /\ SelectTarget(targets) # 0
  /\ targets[SelectTarget(targets)].url

\* the discovery lists of up to MaxTargets targets
TargetLists == UNION {[1..n -> Targets] : n \in 0..MaxTargets}

\* what the fetch of /json/list gives, for lists of up to MaxTargets targets
ListedResults ==
  {[ok |-> FALSE, targets |-> <<>>]} \cup {[ok |-> TRUE, targets |-> l] : l \in TargetLists}

\* the error connect() ends with after the discovery response res, "none" if
\* it goes on to open the socket
ConnectThrows(res) ==
  IF ~res.ok THEN "CDP target discovery failed"
  ELSE IF ~Usable(res.targets) THEN "No CDP target with webSocketDebuggerUrl found"
  ELSE "none"

\* no connect() has gone on from a discovery response yet
NoDiscovery == [n |-> 0, ok |-> FALSE, targets |-> <<>>, opened |-> FALSE,
                target |-> 0, err |-> "none"]

\* the error member of a response frame: none, an object without message, an
\* object whose message is the empty string, an object with a message
FrameErrors == {"none", "noMessage", "emptyMessage", "message"}

\* the frames that are neither a response nor an event: text that is not
\* JSON, the JSON null, a JSON number or string, an object without id or
\* method (bridge) or without a known type (client)
MalformedKinds == {"notJson", "null", "scalar", "neither"}

\* if (parsed.error?.message)
ErrorRejects(err) == err = "message"

\* new Error(parsed.error.message): the text the call is rejected with
ErrorMessage(err) == IF err = "message" THEN "server" ELSE "none"

\* new Error(res.error?.message ?? "unknown error")
GErrorMessage(err) ==
  CASE err = "message" -> "server"
    [] err = "emptyMessage" -> ""
    [] OTHER -> "unknown error"

\* JSON.parse(raw) throws
ParseThrows(kind) == kind = "notJson"

\* reading a property of what JSON.parse returned throws
AccessThrows(kind) == kind = "null"

\* the exception of a frame of this kind leaves a handler whose JSON.parse
\* and whose property reads are, or are not, inside a try
Escapes(kind, parseInTry, accessInTry) ==
  \/ ParseThrows(kind) /\ ~parseInTry
  \/ ~ParseThrows(kind) /\ AccessThrows(kind) /\ ~accessInTry

\* the handler of the bridge: one try around the whole body
CdpEscapes(kind) == Escapes(kind, TRUE, TRUE)

\* handleMessage of the client: the try ends after JSON.parse
GEscapes(kind) == Escapes(kind, TRUE, FALSE)

\* the event names listeners are registered for
Methods == {"Page.loadEventFired", "Target.targetCrashed"}

\* the listener functions passed to on(): one that throws when invoked, one
\* that returns
Listeners == {"thrower", "plain"}

\* the listeners that throw when invoked
Throwers == {"thrower"}

\* the invocations of h made for the frame numbered ev or the one before
Latest(h, ev) == SelectSeq(h, LAMBDA x : x.ev >= ev - 1)

\* the listeners in the Set q
Members(q) == {q[i] : i \in DOMAIN q}

SetAdd_Front(q, l) == IF l \in Members(q) THEN q ELSE <<l>> \o q

\* set.add(listener): a new member goes last, a member stays where it is
SetAdd(q, l) == IF l \in Members(q) THEN q ELSE Append(q, l)

\* set.delete(listener)
SetDelete(q, l) == SelectSeq(q, LAMBDA x : x # l)

Invocations_UntilThrow(q, ev, m, s) ==
  LET stop == {i \in DOMAIN q : q[i] \in Throwers}
      last == IF stop = {} THEN Len(q) ELSE CHOOSE i \in stop : \A j \in stop : i <= j
  IN [i \in 1..last |-> [ev |-> ev, m |-> m, l |-> q[i], sock |-> s,
                          threw |-> q[i] \in Throwers]]

\* for (const listener of listeners) { try { listener(...) } catch {} } for
\* frame number ev, an event m received on socket s
Invocations(q, ev, m, s) ==
  [i \in 1..Len(q) |-> [ev |-> ev, m |-> m, l |-> q[i], sock |-> s,
                         threw |-> q[i] \in Throwers]]

\* what the target answers to the content evaluation of injectMessage: the
\* expression returned true; the expression threw "Input element not found",
\* which Runtime.evaluate reports as exceptionDetails inside a result; the
\* protocol refused the call with an error object
EvaluateReplies == {"done", "notFound", "refused"}

\* the error member of the response frame that carries the reply
ReplyError(r) == IF r = "refused" THEN "message" ELSE "none"

\* the key events injectMessage sends after the content evaluation
KeyKinds == {"inj2", "inj3"}

\* no content evaluation answered yet
NoInjection == [n |-> 0, reply |-> "none", outcome |-> "none", keys |-> {}]

\* no frame handled yet
NoFrame == [n |-> 0, side |-> "none", kind |-> "none", err |-> "none",
            matched |-> FALSE, outcome |-> "none", msg |-> "none", threw |-> FALSE,
            after |-> "none", method |-> "none"]

isConnected == ws # 0 /\ sock[ws].st = "open"

CloseSock_Keep(sk, s) == sk

\* ws.close() of the ws library on socket s of sk
CloseSock(sk, s) ==
  IF s # 0 /\ sk[s].st \in {"open", "connecting"}
  THEN [sk EXCEPT ![s].st = "closing"]
  ELSE sk

\* disconnect() closes socket s: close() is called on it whatever its state
TearSock(sk, s) ==
  IF s # 0 THEN [CloseSock(sk, s) EXCEPT ![s].torn = TRUE] ELSE sk

\* the promise send() returns for the request id it sent on socket s
NewCall(id, s, kind) ==
  [id |-> id, sock |-> s, kind |-> kind, st |-> "pending", why |-> "none",
   by |-> <<0, 0>>, n |-> 0]

\* a promise settled in an earlier step, settled again
Resettled == [id |-> 0, sock |-> 0, kind |-> "gone", st |-> "settled",
              why |-> "none", by |-> <<0, 0>>, n |-> 2]

\* the promises still unsettled: a settled one is kept for one state
Live(cl) == [c \in {x \in DOMAIN cl : cl[x].st = "pending"} |-> cl[c]]

\* resolve or reject of promise c; a settled promise keeps its first outcome
Settle(cl, c, st, why, by) ==
  IF c \notin DOMAIN cl THEN MapSet(cl, c, Resettled)
  ELSE IF cl[c].n > 0 THEN [cl EXCEPT ![c].n = @ + 1]
  ELSE [cl EXCEPT ![c].st = st, ![c].why = why, ![c].by = by, ![c].n = 1]

NextIdAfterSend_Reuse(n) == n

\* this.nextId++
NextIdAfterSend(n) == n + 1

PendingCalls(pd) == {pd[i] : i \in DOMAIN pd}

RejectAllCalls_SkipOne(cl, pd, why) ==
  LET skip == CHOOSE c \in PendingCalls(pd) : \A d \in PendingCalls(pd) : c <= d
  IN [c \in DOMAIN cl \cup PendingCalls(pd) |->
        IF c \in PendingCalls(pd) /\ c # skip
        THEN Settle(cl, c, "rejected", why, <<0, 0>>)[c]
        ELSE cl[c]]

\* rejectAllPending: p.reject(err) for every entry of the map
RejectAllCalls(cl, pd, why) ==
  [c \in DOMAIN cl \cup PendingCalls(pd) |->
     IF c \in PendingCalls(pd)
     THEN Settle(cl, c, "rejected", why, <<0, 0>>)[c]
     ELSE cl[c]]

\* a ping is among the calls rejectAllPending rejects: its catch runs
PingPending(cl, pd) ==
  \E c \in PendingCalls(pd) : c \in DOMAIN cl /\ cl[c].kind = "ping"

NextBackoff_Uncapped(b) == b * 2

\* Math.min(this.backoffMs * 2, 30_000)
NextBackoff(b) == Min(b * 2, BACKOFF_CAP_MS)

LookupPending_Oldest(pd, id) ==
  IF DOMAIN pd = {} THEN 0
  ELSE pd[CHOOSE i \in DOMAIN pd : \A j \in DOMAIN pd : i <= j]

\* this.pending.get(parsed.id); 0 stands for undefined
LookupPending(pd, id) == IF id \in DOMAIN pd THEN pd[id] ELSE 0

CanCall == issued < callCap

\* the part of the bridge a call changes, at the start of a step
Cur == [sock |-> sock, calls |-> Live(calls), pending |-> pending,
        nextId |-> nextId, issued |-> issued]

Commit(b) ==
  /\ sock' = b.sock
  /\ calls' = b.calls
  /\ pending' = b.pending
  /\ nextId' = b.nextId
  /\ issued' = b.issued

\* send() on the open socket s: the id, the frame, the pending entry
SendOn(b, s, kind) ==
  [sock |-> [b.sock EXCEPT ![s].sent = @ \cup {b.nextId},
                           ![s].bound = @ \/ kind = "obs1"],
   calls |-> MapSet(b.calls, b.issued + 1, NewCall(b.nextId, s, kind)),
   pending |-> MapSet(b.pending, b.nextId, b.issued + 1),
   nextId |-> NextIdAfterSend(b.nextId),
   issued |-> b.issued + 1]

Refuse_Queue(b, kind) ==
  [b EXCEPT !.calls = MapSet(b.calls, b.issued + 1, NewCall(0, 0, kind)),
            !.pending = MapSet(b.pending, 0, b.issued + 1),
            !.issued = b.issued + 1]

\* send() or request() without an open socket: the throw of the async function
\* rejects the promise it returns, before an id is taken (0 stands for no id)
Refuse(b, kind) ==
  [b EXCEPT !.calls = MapSet(b.calls, b.issued + 1,
                             [NewCall(0, 0, kind) EXCEPT
                                !.st = "rejected", !.why = "notConnected", !.n = 1]),
            !.issued = b.issued + 1]

\* rejectAllPending(err)
RejectAll(b, why) ==
  [b EXCEPT !.calls = RejectAllCalls(b.calls, b.pending, why),
            !.pending = EmptyMap]

\* the kind of the call an awaiting chain issues after the call of kind k resolved
NextKind_BindingOnly(k) == "none"

NextKind(k) ==
  CASE k = "obs1" -> "obs2"
    [] k = "obs2" -> "obs3"
    [] k = "inj1" -> "inj2"
    [] k = "inj2" -> "inj3"
    [] OTHER -> "none"

\* ---------------------------------------------------------- ResponseRouter
Channels == {"telegram", "slack"}

Senders == {"alice"}

Payloads == {"response", "emptyText", "otherType", "malformed", "otherName"}

\* an if in place of the while: at most one record is evicted
PruneStale_Once(q, t) ==
  IF Len(q) > 0 /\ q[1].at < t - CONTEXT_TIMEOUT_MS THEN Tail(q) ELSE q

RECURSIVE PruneStale(_, _)
\* pruneStale at time t
PruneStale(q, t) ==
  IF Len(q) > 0 /\ q[1].at < t - CONTEXT_TIMEOUT_MS
  THEN PruneStale(Tail(q), t)
  ELSE q

TakeOldest_Last(q) == q[Len(q)]

\* what this.pendingMessages.shift() returns
TakeOldest(q) == q[1]

\* what this.pendingMessages.shift() leaves
ShiftOldest(q) == Tail(q)

\* trackInjection(channelId, from) on the queue q at time t
TrackInjection(q, ch, from, t) ==
  PruneStale(Append(q, [ch |-> ch, from |-> from, at |-> t]), t)

\* the router state routeResponse reads and writes
RouterState == [q |-> pendingMessages, d |-> delivered, p |-> pruned,
                n |-> routed, m |-> missed]

\* routeResponse(text) on the router state r at time t
RouteResponse(r, t, sk) ==
  LET q1 == PruneStale(r.q, t)
      p1 == r.p \/ q1 # r.q
  IN IF Len(q1) = 0
     THEN [q |-> q1, d |-> r.d, p |-> p1, n |-> r.n + 1, m |-> TRUE]
     ELSE [q |-> ShiftOldest(q1),
           d |-> IF sk THEN Append(r.d, <<TakeOldest(q1).ch, TakeOldest(q1).from>>)
                 ELSE r.d,
           p |-> p1, n |-> r.n + 1, m |-> r.m]

\* the callback startObserving gives the bridge, on a parsed payload
RouterCallback(r, t, sk, payload) ==
  IF payload = "response" THEN RouteResponse(r, t, sk) ELSE r

CommitRouter(r) ==
  /\ pendingMessages' = r.q
  /\ delivered' = r.d
  /\ pruned' = r.p
  /\ routed' = r.n
  /\ missed' = r.m

RECURSIVE RouteTimes(_, _, _, _, _)
\* the callback, invoked by k listeners in turn
RouteTimes(r, t, sk, payload, k) ==
  IF k = 0 THEN r
  ELSE RouteTimes(RouterCallback(r, t, sk, payload), t, sk, payload, k - 1)

\* the payloads JSON.parse accepts
Parses(payload) == payload \notin {"malformed"}

\* how many of the k listeners of Runtime.bindingCalled invoke the callback
Reaching(payload, k) == IF payload # "otherName" /\ Parses(payload) THEN k ELSE 0

\* -------------------------------------------------------- CdpBridge actions
\* connect() up to its first await, called by the owner
ConnectBy(o) ==
  /\ discovering["account"] + discovering["service"] < MaxDiscover
  /\ closed' = FALSE
  /\ discovering' = [discovering EXCEPT ![o] = @ + 1]
  /\ Commit(Cur)
  /\ UNCHANGED <<ws, backoffMs, pingTimer, responseCallback, listeners, timers,
                 attempts, callCap>>
  /\ UNCHANGED <<proc, otherVars, routerVars, gatewayVars>>

\* gateway.startAccount of the channel plugin
StartAccount == ConnectBy("account")

\* start() of the claude-desktop-cdp service
ServiceStart == ConnectBy("service")

\* discoverTargets returns or throws, and connect() goes on to openWebSocket or
\* throws: what it does to the bridge
ConnectGoesOn(o, res) ==
  /\ discovering[o] > 0
  /\ discovering' = [discovering EXCEPT ![o] = @ - 1]
  /\ IF res.ok /\ Usable(res.targets)
     THEN /\ Len(sock) < MaxSocks
          /\ Commit([Cur EXCEPT !.sock =
                       Append(sock, [st |-> "connecting", origin |-> o, sent |-> {},
                                     bound |-> FALSE, torn |-> FALSE])])
     ELSE Commit(Cur)
  /\ UNCHANGED <<ws, closed, backoffMs, pingTimer, responseCallback, listeners,
                 timers, attempts, callCap>>

\* discoverTargets returns or throws, and connect() goes on to openWebSocket or throws
DiscoverDone(o, res) ==
  /\ ConnectGoesOn(o, res)
  /\ UNCHANGED <<proc, otherVars, routerVars, gatewayVars>>

\* the same, with the response and what connect() did with it observed
DiscoverDoneSeen(o, res) ==
  /\ ConnectGoesOn(o, res)
  /\ discovered' = [n |-> 1, ok |-> res.ok, targets |-> res.targets,
                    opened |-> Len(sock') > Len(sock),
                    target |-> IF Len(sock') > Len(sock)
                               THEN SelectTarget(res.targets) ELSE 0,
                    err |-> ConnectThrows(res)]
  /\ UNCHANGED <<proc, bufferVars, resolverVars, handled, moreSeen, listenerVars, routerVars,
                 gatewayVars>>

\* the "open" event of socket s, and what connect() and its caller do next
SocketOpen(s) ==
  /\ s \in DOMAIN sock
  /\ sock[s].st = "connecting"
  /\ LET observe == \/ sock[s].origin = "service"
                    \/ sock[s].origin = "timer" /\ responseCallback
         b1 == [Cur EXCEPT !.sock[s].st = "open", !.sock[s].origin = "none"]
     IN /\ observe => CanCall
        /\ Commit(IF observe THEN SendOn(b1, s, "obs1") ELSE b1)
  /\ ws' = s
  /\ backoffMs' = BACKOFF_START_MS
  /\ attempts' = 0
  /\ pingTimer' = TRUE
  /\ responseCallback' = (responseCallback \/ sock[s].origin = "service")
  /\ UNCHANGED <<closed, listeners, timers, discovering, callCap>>
  /\ UNCHANGED <<proc, otherVars, routerVars, gatewayVars>>

\* the "error" event of socket s before it opened: openWebSocket rejects
SocketFail(s) ==
  /\ s \in DOMAIN sock
  /\ sock[s].st = "connecting"
  /\ Commit([Cur EXCEPT !.sock[s].st = "closed", !.sock[s].origin = "none"])
  /\ UNCHANGED <<ws, closed, backoffMs, pingTimer, responseCallback, listeners,
                 timers, discovering, attempts, callCap>>
  /\ UNCHANGED <<proc, otherVars, routerVars, gatewayVars>>

\* send() by a caller of the bridge
Send ==
  /\ CanCall
  /\ Commit(IF isConnected THEN SendOn(Cur, ws, "user") ELSE Refuse(Cur, "user"))
  /\ UNCHANGED <<ws, closed, backoffMs, pingTimer, responseCallback, listeners,
                 timers, discovering, attempts, callCap>>
  /\ UNCHANGED <<proc, otherVars, routerVars, gatewayVars>>

\* the "message" event of socket s for a response to the request id of that
\* socket: what the handler does to the bridge
ResponseBridge(s, id, isErr) ==
  /\ s \in DOMAIN sock
  /\ sock[s].st \in {"open", "closing"}
  /\ id \in sock[s].sent
  /\ LET c == LookupPending(pending, id)
         b1 == [Cur EXCEPT !.pending = MapDel(pending, id),
                           !.calls = Settle(Live(calls), c,
                                       IF isErr THEN "rejected" ELSE "resolved",
                                       "frame", <<s, id>>)]
         kind == IF c \in DOMAIN Live(calls) THEN calls[c].kind ELSE "gone"
         goOn == ~isErr /\ NextKind(kind) # "none" /\ isConnected
         b2 == IF goOn THEN SendOn(b1, ws, NextKind(kind)) ELSE b1
     IN IF c = 0
        THEN Commit(Cur) /\ UNCHANGED listeners
        ELSE /\ goOn => CanCall
             /\ Commit(IF isErr /\ kind = "ping"
                       THEN [b2 EXCEPT !.sock = CloseSock(b2.sock, ws)] ELSE b2)
             /\ listeners' = IF ~isErr /\ kind = "obs3"
                             THEN listeners + 1 ELSE listeners
  /\ UNCHANGED <<ws, closed, backoffMs, pingTimer, responseCallback, timers,
                 discovering, attempts, callCap>>

\* the "message" event of socket s for a response to the request id of that socket
Response(s, id, isErr) ==
  /\ ResponseBridge(s, id, isErr)
  /\ UNCHANGED <<proc, otherVars, routerVars, gatewayVars>>

\* the same for a response frame whose error member is err, observed
ResponseFrame(s, id, err) ==
  /\ handled.n < MaxFrames
  /\ ResponseBridge(s, id, ErrorRejects(err))
  /\ LET c == LookupPending(pending, id)
     IN handled' = [n |-> handled.n + 1, side |-> "cdp", kind |-> "res", err |-> err,
                    matched |-> c # 0,
                    outcome |-> IF c \in DOMAIN calls' THEN calls'[c].st ELSE "none",
                    msg |-> IF c \in DOMAIN calls' /\ calls'[c].st = "rejected"
                            THEN ErrorMessage(err) ELSE "none",
                    threw |-> FALSE, after |-> handled.kind, method |-> "none"]
  /\ UNCHANGED <<proc, bufferVars, resolverVars, discovered, moreSeen, listenerVars, routerVars,
                 gatewayVars>>

\* the "message" event of socket s for the reply to the content evaluation of
\* an injectMessage, and what injectMessage does next
EvaluateReply(s, id, r) ==
  /\ LookupPending(pending, id) \in DOMAIN Live(calls)
  /\ calls[LookupPending(pending, id)].kind = "inj1"
  /\ ResponseBridge(s, id, ErrorRejects(ReplyError(r)))
  /\ LET c == LookupPending(pending, id)
     IN injection' = [n |-> 1, reply |-> r,
                      outcome |-> calls'[c].st,
                      keys |-> {calls'[d].kind : d \in DOMAIN calls'} \cap KeyKinds]
  /\ UNCHANGED <<proc, bufferVars, resolverVars, discovered, handled, arrivals,
                 listenerVars, routerVars, gatewayVars>>

\* the "message" event of socket s for a frame that is neither a response nor
\* an event
MalformedFrame(s, kind) ==
  /\ handled.n < MaxFrames
  /\ s \in DOMAIN sock
  /\ sock[s].st \in {"open", "closing"}
  /\ Commit(Cur)
  /\ handled' = [n |-> handled.n + 1, side |-> "cdp", kind |-> kind, err |-> "none",
                 matched |-> FALSE, outcome |-> "none", msg |-> "none",
                 threw |-> CdpEscapes(kind), after |-> handled.kind,
                 method |-> "none"]
  /\ UNCHANGED <<ws, closed, backoffMs, pingTimer, responseCallback, listeners,
                 timers, discovering, attempts, callCap>>
  /\ UNCHANGED <<proc, bufferVars, resolverVars, discovered, moreSeen, listenerVars, routerVars,
                 gatewayVars>>

\* on(event, listener)
On(m, l) ==
  /\ l \notin Members(eventListeners[m]) => ons < Cardinality(Listeners)
  /\ eventListeners' = [eventListeners EXCEPT ![m] = SetAdd(@, l)]
  /\ ons' = IF l \in Members(eventListeners[m]) THEN ons ELSE ons + 1
  /\ Commit(Cur)
  /\ UNCHANGED <<ws, closed, backoffMs, pingTimer, responseCallback, listeners,
                 timers, discovering, attempts, callCap, heard>>
  /\ UNCHANGED <<proc, bufferVars, resolverVars, seenVars, routerVars, gatewayVars>>

\* off(event, listener)
Off(m, l) ==
  /\ eventListeners' = [eventListeners EXCEPT ![m] = SetDelete(@, l)]
  /\ Commit(Cur)
  /\ UNCHANGED <<ws, closed, backoffMs, pingTimer, responseCallback, listeners,
                 timers, discovering, attempts, callCap, ons, heard>>
  /\ UNCHANGED <<proc, bufferVars, resolverVars, seenVars, routerVars, gatewayVars>>

\* the "message" event of socket s for an event frame of method m
EventFrame(s, m) ==
  /\ handled.n < MaxFrames
  /\ s \in DOMAIN sock
  /\ sock[s].st \in {"open", "closing"}
  /\ heard' = Latest(heard, handled.n + 1)
               \o Invocations(eventListeners[m], handled.n + 1, m, s)
  /\ handled' = [n |-> handled.n + 1, side |-> "cdp", kind |-> "event", err |-> "none",
                 matched |-> FALSE, outcome |-> "none", msg |-> "none",
                 threw |-> FALSE, after |-> handled.kind, method |-> m]
  /\ Commit(Cur)
  /\ UNCHANGED <<ws, closed, backoffMs, pingTimer, responseCallback, listeners,
                 timers, discovering, attempts, callCap, eventListeners, ons>>
  /\ UNCHANGED <<proc, bufferVars, resolverVars, discovered, moreSeen, routerVars, gatewayVars>>

\* the "message" event of socket s for a Runtime.bindingCalled event
BindingCalled(s, payload) ==
  /\ s \in DOMAIN sock
  /\ sock[s].st \in {"open", "closing"}
  /\ sock[s].bound
  /\ notifs < MaxNotifs
  /\ notifs' = notifs + 1
  /\ CommitRouter(RouteTimes(RouterState, now, sink, payload,
                             Reaching(payload, listeners)))
  /\ Commit(Cur)
  /\ UNCHANGED <<now, tracked, sink, proc, otherVars, gatewayVars>>
  /\ UNCHANGED <<ws, closed, backoffMs, pingTimer, responseCallback, listeners,
                 timers, discovering, attempts, callCap>>

\* scheduleReconnect(): the timers and the backoff it leaves
ScheduleReconnect ==
  IF closed
  THEN UNCHANGED <<timers, backoffMs, attempts>>
  ELSE /\ timers' = Append(timers, [delay |-> backoffMs, n |-> attempts + 1])
       /\ backoffMs' = NextBackoff(backoffMs)
       /\ attempts' = attempts + 1

\* the "close" event of socket s, which had opened
SocketClose(s) ==
  /\ s \in DOMAIN sock
  /\ sock[s].st \in {"open", "closing"}
  /\ Commit(RejectAll([Cur EXCEPT !.sock[s].st = "closed", !.sock[s].sent = {},
                                 !.sock[s].bound = FALSE, !.sock[s].torn = FALSE],
                      "close"))
  /\ ws' = 0
  /\ pingTimer' = FALSE
  /\ ScheduleReconnect
  /\ UNCHANGED <<closed, responseCallback, listeners, discovering, callCap>>
  /\ UNCHANGED <<proc, otherVars, routerVars, gatewayVars>>

\* the "error" event of socket s, which had opened; the ws library leaves it CLOSING
SocketError(s) ==
  /\ s \in DOMAIN sock
  /\ sock[s].st = "open"
  /\ LET b1 == RejectAll([Cur EXCEPT !.sock[s].st = "closing"], "error")
     IN Commit(IF PingPending(Live(calls), pending)
               THEN [b1 EXCEPT !.sock = CloseSock(b1.sock, ws)] ELSE b1)
  /\ UNCHANGED <<ws, closed, backoffMs, pingTimer, responseCallback, listeners,
                 timers, discovering, attempts, callCap>>
  /\ UNCHANGED <<proc, otherVars, routerVars, gatewayVars>>

Disconnect_Backoff ==
  /\ closed' = TRUE
  /\ pingTimer' = FALSE
  /\ Commit(RejectAll([Cur EXCEPT !.sock = TearSock(sock, ws)], "disconnect"))
  /\ ws' = 0
  /\ backoffMs' = NextBackoff(backoffMs)
  /\ UNCHANGED <<responseCallback, listeners, timers, discovering, attempts, callCap>>
  /\ UNCHANGED <<proc, otherVars, routerVars, gatewayVars>>

\* disconnect(), called by stopAccount or by the service's stop()
Disconnect ==
  /\ closed' = TRUE
  /\ pingTimer' = FALSE
  /\ Commit(RejectAll([Cur EXCEPT !.sock = TearSock(sock, ws)], "disconnect"))
  /\ ws' = 0
  /\ UNCHANGED <<backoffMs, responseCallback, listeners, timers, discovering,
                 attempts, callCap>>
  /\ UNCHANGED <<proc, otherVars, routerVars, gatewayVars>>

\* the callback scheduleReconnect gave setTimeout runs
TimerFire(i) ==
  /\ i \in DOMAIN timers
  /\ timers' = RemoveAt(timers, i)
  /\ discovering' = IF closed THEN discovering
                    ELSE [discovering EXCEPT !["timer"] = @ + 1]
  /\ Commit(Cur)
  /\ UNCHANGED <<ws, closed, backoffMs, pingTimer, responseCallback, listeners,
                 attempts, callCap>>
  /\ UNCHANGED <<proc, otherVars, routerVars, gatewayVars>>

\* the callback startHealthPing gave setInterval runs, the bridge connected
PingTick ==
  /\ pingTimer
  /\ isConnected
  /\ CanCall
  /\ Commit(SendOn(Cur, ws, "ping"))
  /\ UNCHANGED <<ws, closed, backoffMs, pingTimer, responseCallback, listeners,
                 timers, discovering, attempts, callCap>>
  /\ UNCHANGED <<proc, otherVars, routerVars, gatewayVars>>

\* the message_received hook: trackInjection, then injectMessage up to its first await
MessageReceived(ch, from) ==
  /\ isConnected
  /\ CanCall
  /\ Len(tracked) < MaxTracked
  /\ LET q1 == TrackInjection(pendingMessages, ch, from, now)
     IN /\ pendingMessages' = q1
        /\ pruned' = (pruned \/ Len(q1) # Len(pendingMessages) + 1)
  /\ tracked' = Append(tracked, <<ch, from>>)
  /\ Commit(SendOn(Cur, ws, "inj1"))
  /\ UNCHANGED <<now, delivered, notifs, routed, missed, sink, proc, otherVars, gatewayVars>>
  /\ UNCHANGED <<ws, closed, backoffMs, pingTimer, responseCallback, listeners,
                 timers, discovering, attempts, callCap>>

\* router.trackInjection(channelId, from), by itself
Track(ch, from) ==
  /\ Len(tracked) < MaxTracked
  /\ LET q1 == TrackInjection(pendingMessages, ch, from, now)
     IN /\ pendingMessages' = q1
        /\ pruned' = (pruned \/ Len(q1) # Len(pendingMessages) + 1)
  /\ tracked' = Append(tracked, <<ch, from>>)
  /\ UNCHANGED <<now, delivered, notifs, routed, missed, sink>>
  /\ UNCHANGED <<proc, otherVars, bridgeVars, gatewayVars>>

\* one invocation of the callback startObserving gave the bridge
Notify(payload) ==
  /\ notifs < MaxCallbacks
  /\ notifs' = notifs + 1
  /\ CommitRouter(RouterCallback(RouterState, now, sink, payload))
  /\ UNCHANGED <<now, tracked, sink>>
  /\ UNCHANGED <<proc, otherVars, bridgeVars, gatewayVars>>

\* time passes
Advance(d) ==
  /\ now + d <= MaxNow
  /\ now' = now + d
  /\ UNCHANGED <<pendingMessages, tracked, delivered, pruned, notifs, routed,
                 missed, sink>>
  /\ UNCHANGED <<proc, otherVars, bridgeVars, gatewayVars>>

\* ------------------------------------------------------------ GatewayClient
\* randomUUID(): a token no earlier request carried
FreshId(iss) == iss + 1

gwOpen == gws # 0 /\ gsock[gws].st = "open"

\* isConnected() of the client
GIsConnected == gws # 0 /\ gsock[gws].st = "open" /\ connectSent

GCur == [sock |-> gsock, calls |-> Live(gcalls), pending |-> gpending,
         issued |-> gissued]

GCommit(b) ==
  /\ gsock' = b.sock
  /\ gcalls' = b.calls
  /\ gpending' = b.pending
  /\ gissued' = b.issued

\* request() on the open socket s: the id, the pending entry, the frame
RequestOn(b, s, kind) ==
  [sock |-> [b.sock EXCEPT ![s].sent = @ \cup {FreshId(b.issued)},
                           ![s].connects = IF kind = "connect" THEN @ + 1 ELSE @],
   calls |-> MapSet(b.calls, b.issued + 1, NewCall(FreshId(b.issued), s, kind)),
   pending |-> MapSet(b.pending, FreshId(b.issued), b.issued + 1),
   issued |-> b.issued + 1]

\* flushPendingErrors(err)
FlushPendingErrors(b, why) ==
  [b EXCEPT !.calls = RejectAllCalls(b.calls, b.pending, why),
            !.pending = EmptyMap]

GCanCall == gissued < MaxCalls

StartSocket_Always ==
  /\ Len(gsock) < MaxGSocks
  /\ GCommit([GCur EXCEPT !.sock = Append(gsock, [st |-> "connecting", sent |-> {},
                                                  hello |-> FALSE, connects |-> 0])])
  /\ gws' = Len(gsock) + 1

\* start(): a socket is created unless the client is stopped
StartSocket ==
  IF gclosed
  THEN GCommit(GCur) /\ UNCHANGED gws
  ELSE /\ Len(gsock) < MaxGSocks
       /\ GCommit([GCur EXCEPT !.sock = Append(gsock, [st |-> "connecting", sent |-> {},
                                                       hello |-> FALSE, connects |-> 0])])
       /\ gws' = Len(gsock) + 1

\* gw.start() of the MCP server's entry point
GStart ==
  /\ ~started
  /\ started' = TRUE
  /\ StartSocket
  /\ UNCHANGED <<gclosed, gbackoffMs, connectNonce, connectSent, tickTimer, watches,
                 gtimers, gattempts>>
  /\ UNCHANGED tickVars
  /\ UNCHANGED <<proc, otherVars, bridgeVars, routerVars>>

GTimerFire_Repeats(i) ==
  /\ i \in DOMAIN gtimers
  /\ gtimers' = gtimers
  /\ StartSocket
  /\ UNCHANGED <<gclosed, gbackoffMs, connectNonce, connectSent, tickTimer, watches,
                 gattempts, started>>
  /\ UNCHANGED tickVars
  /\ UNCHANGED <<proc, otherVars, bridgeVars, routerVars>>

\* the callback scheduleReconnect gave setTimeout runs: start()
GTimerFire(i) ==
  /\ i \in DOMAIN gtimers
  /\ gtimers' = RemoveAt(gtimers, i)
  /\ StartSocket
  /\ UNCHANGED <<gclosed, gbackoffMs, connectNonce, connectSent, tickTimer, watches,
                 gattempts, started>>
  /\ UNCHANGED tickVars
  /\ UNCHANGED <<proc, otherVars, bridgeVars, routerVars>>

\* the "open" event of socket s: nothing is sent before the challenge
GOpen(s) ==
  /\ s \in DOMAIN gsock
  /\ gsock[s].st = "connecting"
  /\ GCommit([GCur EXCEPT !.sock[s].st = "open"])
  /\ UNCHANGED <<gws, gclosed, gbackoffMs, connectNonce, connectSent, tickTimer, watches,
                 gtimers, gattempts, started>>
  /\ UNCHANGED tickVars
  /\ UNCHANGED <<proc, otherVars, bridgeVars, routerVars>>

SkipsConnect_Resend(hasNonce, sent) == ~hasNonce

\* a challenge sends nothing: it has no string nonce, or sendConnect() returns at once
SkipsConnect(hasNonce, sent) == ~hasNonce \/ sent

\* the "message" event of socket s for a connect.challenge event: sendConnect()
GChallengeClient(s, hasNonce) ==
  /\ s \in DOMAIN gsock
  /\ gsock[s].st \in {"open", "closing"}
  /\ IF SkipsConnect(hasNonce, connectSent)
     THEN /\ GCommit(GCur)
          /\ connectNonce' = (connectNonce \/ hasNonce)
          /\ UNCHANGED connectSent
     ELSE /\ connectNonce' = TRUE
          /\ connectSent' = TRUE
          /\ IF gwOpen
             THEN GCanCall /\ GCommit(RequestOn(GCur, gws, "connect"))
             ELSE GCommit([GCur EXCEPT !.sock = CloseSock(gsock, gws)])
  /\ UNCHANGED <<gws, gclosed, gbackoffMs, tickTimer, watches, gtimers, gattempts, started>>
  /\ UNCHANGED tickVars

\* handleMessage for a connect.challenge event, with or without a nonce
GChallenge(s, hasNonce) ==
  /\ GChallengeClient(s, hasNonce)
  /\ UNCHANGED <<proc, otherVars, bridgeVars, routerVars>>

\* request() by a tool
GRequest ==
  /\ GCanCall
  /\ GCommit(IF gwOpen THEN RequestOn(GCur, gws, "user") ELSE Refuse(GCur, "user"))
  /\ UNCHANGED <<gws, gclosed, gbackoffMs, connectNonce, connectSent, tickTimer, watches,
                 gtimers, gattempts, started>>
  /\ UNCHANGED tickVars
  /\ UNCHANGED <<proc, otherVars, bridgeVars, routerVars>>

\* the reply carries no numeric policy.tickIntervalMs
NoInterval == -1

\* this.lastTick is null
NoTime == -1

TickIntervalOf_Keep(adv, old) == old

ClearInterval_Skip(w, field) == w

\* clearInterval(this.tickTimer) where the field is set: the field holds the
\* timer started last
ClearInterval(w, field) ==
  IF field /\ w # <<>> THEN SubSeq(w, 1, Len(w) - 1) ELSE w

\* startTickWatch() on the handshake of socket s
StartTickWatch(w, field, s) == Append(ClearInterval(w, field), s)

\* the tick interval the hello-ok reaction stores, adv advertised by the reply
TickIntervalOf(adv, old) == IF adv = NoInterval THEN DEFAULT_TICK_MS ELSE adv

\* the "message" event of socket s for a response to the request id of that
\* socket, a successful reply to connect advertising the tick interval adv
GReplyClient(s, id, ok, adv) ==
  /\ s \in DOMAIN gsock
  /\ gsock[s].st \in {"open", "closing"}
  /\ id \in gsock[s].sent
  /\ LET c == LookupPending(gpending, id)
         b1 == [GCur EXCEPT !.pending = MapDel(gpending, id),
                            !.calls = Settle(Live(gcalls), c,
                                        IF ok THEN "resolved" ELSE "rejected",
                                        "frame", <<s, id, adv>>)]
         kind == IF c \in DOMAIN Live(gcalls) THEN gcalls[c].kind ELSE "gone"
     IN IF c = 0
        THEN /\ GCommit(GCur)
             /\ UNCHANGED <<gbackoffMs, gattempts, tickTimer, watches, lastTick, tickIntervalMs>>
        ELSE /\ GCommit(IF kind # "connect" THEN b1
                        ELSE IF ok THEN [b1 EXCEPT !.sock[gcalls[c].sock].hello = TRUE]
                        ELSE [b1 EXCEPT !.sock = CloseSock(b1.sock, gws)])
             /\ IF ok /\ kind = "connect"
                THEN /\ gbackoffMs' = BACKOFF_START_MS
                     /\ gattempts' = 0
                     /\ tickIntervalMs' = TickIntervalOf(adv, tickIntervalMs)
                     /\ lastTick' = now
                     /\ tickTimer' = TRUE
                     /\ watches' = StartTickWatch(watches, tickTimer, gcalls[c].sock)
                ELSE UNCHANGED <<gbackoffMs, gattempts, tickTimer, watches, lastTick,
                                 tickIntervalMs>>
  /\ UNCHANGED <<gws, gclosed, connectNonce, connectSent, gtimers, started, wdRuns>>

\* the "message" event of socket s for a res frame
GReply(s, id, ok, adv) ==
  /\ GReplyClient(s, id, ok, adv)
  /\ UNCHANGED <<proc, otherVars, bridgeVars, routerVars>>

\* the same for a res frame with this ok and this error member, observed
GReplyFrame(s, id, ok, err) ==
  /\ handled.n < MaxFrames
  /\ GReplyClient(s, id, ok, NoInterval)
  /\ LET c == LookupPending(gpending, id)
     IN handled' = [n |-> handled.n + 1, side |-> "gateway", kind |-> "res",
                    err |-> IF ok THEN "none" ELSE err,
                    matched |-> c # 0,
                    outcome |-> IF c \in DOMAIN gcalls' THEN gcalls'[c].st ELSE "none",
                    msg |-> IF c \in DOMAIN gcalls' /\ gcalls'[c].st = "rejected"
                            THEN GErrorMessage(err) ELSE "none",
                    threw |-> FALSE, after |-> handled.kind, method |-> "none"]
  /\ UNCHANGED <<proc, bufferVars, resolverVars, discovered, moreSeen, listenerVars, bridgeVars,
                 routerVars>>

\* handleMessage for a frame that is neither a response nor an event
GMalformedFrame(s, kind) ==
  /\ handled.n < MaxFrames
  /\ s \in DOMAIN gsock
  /\ gsock[s].st \in {"open", "closing"}
  /\ GCommit(GCur)
  /\ handled' = [n |-> handled.n + 1, side |-> "gateway", kind |-> kind,
                 err |-> "none", matched |-> FALSE, outcome |-> "none",
                 msg |-> "none", threw |-> GEscapes(kind), after |-> handled.kind,
                 method |-> "none"]
  /\ UNCHANGED <<gws, gclosed, gbackoffMs, connectNonce, connectSent, tickTimer, watches,
                 tickIntervalMs, lastTick, wdRuns, gtimers, gattempts, started>>
  /\ UNCHANGED <<proc, bufferVars, resolverVars, discovered, moreSeen, listenerVars, bridgeVars,
                 routerVars>>

\* a response from a gateway that advertises no tick interval
GResponse(s, id, ok) == GReply(s, id, ok, NoInterval)

\* the "message" event of socket s for a tick event
GTickClient(s) ==
  /\ s \in DOMAIN gsock
  /\ gsock[s].st \in {"open", "closing"}
  /\ lastTick' = now
  /\ GCommit(GCur)
  /\ UNCHANGED <<gws, gclosed, gbackoffMs, connectNonce, connectSent, tickTimer, watches,
                 tickIntervalMs, wdRuns, gtimers, gattempts, started>>

\* handleMessage for a tick event, its delivery to onEvent left out
GTick(s) ==
  /\ GTickClient(s)
  /\ UNCHANGED <<proc, otherVars, bridgeVars, routerVars>>

GScheduleReconnect_Never ==
  UNCHANGED <<gtimers, gbackoffMs, gattempts, tickTimer, watches, connectNonce, connectSent>>

\* scheduleReconnect() of the client
GScheduleReconnect ==
  IF gclosed
  THEN UNCHANGED <<gtimers, gbackoffMs, gattempts, tickTimer, watches, connectNonce, connectSent>>
  ELSE /\ tickTimer' = FALSE
       /\ watches' = ClearInterval(watches, tickTimer)
       /\ gtimers' = Append(gtimers, [delay |-> gbackoffMs, n |-> gattempts + 1])
       /\ gbackoffMs' = NextBackoff(gbackoffMs)
       /\ gattempts' = gattempts + 1
       /\ connectNonce' = FALSE
       /\ connectSent' = FALSE

\* the "close" event of socket s, opened or not
GClose(s) ==
  /\ s \in DOMAIN gsock
  /\ gsock[s].st \in {"connecting", "open", "closing"}
  /\ gws' = 0
  /\ GCommit(FlushPendingErrors([GCur EXCEPT !.sock[s].st = "closed",
                                             !.sock[s].sent = {},
                                             !.sock[s].hello = FALSE,
                                             !.sock[s].connects = 0], "close"))
  /\ GScheduleReconnect
  /\ UNCHANGED <<gclosed, started>>
  /\ UNCHANGED tickVars
  /\ UNCHANGED <<proc, otherVars, bridgeVars, routerVars>>

\* stop(), called by the shutdown handler
GStop ==
  /\ gclosed' = TRUE
  /\ tickTimer' = FALSE
  /\ watches' = ClearInterval(watches, tickTimer)
  /\ gws' = 0
  /\ GCommit(FlushPendingErrors([GCur EXCEPT !.sock = CloseSock(gsock, gws)],
                                "stopped"))
  /\ UNCHANGED <<gbackoffMs, connectNonce, connectSent, gtimers, gattempts, started>>
  /\ UNCHANGED tickVars
  /\ UNCHANGED <<proc, otherVars, bridgeVars, routerVars>>

TickOverdue_AtTwice(t, last, interval) == t - last >= interval * 2

\* Date.now() - this.lastTick > this.tickIntervalMs * 2
TickOverdue(t, last, interval) == t - last > interval * 2

\* the callback startTickWatch gave setInterval runs
GTickTimeout ==
  /\ tickTimer
  /\ wdRuns < MaxWatchdogRuns
  /\ wdRuns' = wdRuns + 1
  /\ GCommit(IF gclosed \/ lastTick = NoTime \/ ~TickOverdue(now, lastTick, tickIntervalMs)
             THEN GCur
             ELSE [GCur EXCEPT !.sock = CloseSock(gsock, gws)])
  /\ UNCHANGED <<gws, gclosed, gbackoffMs, connectNonce, connectSent, tickTimer, watches,
                 lastTick, tickIntervalMs, gtimers, gattempts, started>>
  /\ UNCHANGED <<proc, otherVars, bridgeVars, routerVars>>

\* -------------------------------------------------------------- EventBuffer
\* the names of the event frames the gateway pushes
EventNames == {"tick", "chat"}

\* a numeric option query() was called without (undefined)
NoOption == -1

\* query() was called without opts.eventType (undefined)
NoType == "undefined"

\* no query() was made yet
NoQuery == [eventType |-> NoType, since |-> NoOption, limit |-> NoOption,
            out |-> <<>>, asked |-> FALSE]

\* the values of opts.eventType: undefined, the empty string, an event name
QueryTypes == {NoType, ""} \cup EventNames

\* the values of opts.since: undefined, 0, a time of the clock
QuerySinces == {NoOption, 0, CLOCK_STEP_MS, 2 * CLOCK_STEP_MS}

\* the values of opts.limit: undefined, 0 .. MaxLimit
QueryLimits == {NoOption} \cup 0..MaxLimit

Evict_AtOverflow(b, cap) == IF Len(b) > cap THEN Tail(b) ELSE b

\* if (this.buf.length >= this.capacity) this.buf.shift()
Evict(b, cap) == IF Len(b) >= cap /\ b # <<>> THEN Tail(b) ELSE b

\* push(frame): the entry gets the current time
PushEntry(b, cap, ev, t, n) == Append(Evict(b, cap), [ts |-> t, event |-> ev, n |-> n])

\* results.slice(-k) for k > 0
LastN(q, k) == IF Len(q) <= k THEN q ELSE SubSeq(q, Len(q) - k + 1, Len(q))

\* if (opts?.eventType): undefined and "" are falsy
TypeFilters(ty) == ty # NoType /\ ty # ""

\* if (opts?.since): undefined and 0 are falsy
SinceFilters(si) == si # NoOption /\ si # 0

\* if (opts?.limit && opts.limit > 0)
LimitCuts(li) == li # NoOption /\ li # 0 /\ li > 0

FilterType(q, ty) == SelectSeq(q, LAMBDA e : e.event = ty)

FilterSince(q, si) == SelectSeq(q, LAMBDA e : e.ts >= si)

\* query(opts)
QueryOf(b, ty, si, li) ==
  LET r1 == IF TypeFilters(ty) THEN FilterType(b, ty) ELSE b
      r2 == IF SinceFilters(si) THEN FilterSince(r1, si) ELSE r1
  IN IF LimitCuts(li) THEN LastN(r2, li) ELSE r2

\* events.push(evt), from the client's onEvent
Push(ev) ==
  /\ pushed < MaxPushes
  /\ buf' = PushEntry(buf, capacity, ev, now, pushed + 1)
  /\ pushed' = pushed + 1
  /\ lastQuery' = NoQuery
  /\ UNCHANGED <<capacity, clearedAt>>
  /\ UNCHANGED <<proc, bridgeVars, routerVars, gatewayVars, resolverVars, seenVars, listenerVars>>

\* clear()
Clear ==
  /\ buf' = <<>>
  /\ clearedAt' = pushed
  /\ lastQuery' = NoQuery
  /\ UNCHANGED <<capacity, pushed>>
  /\ UNCHANGED <<proc, bridgeVars, routerVars, gatewayVars, resolverVars, seenVars, listenerVars>>

\* query({eventType, since, limit})
Query(ty, si, li) ==
  /\ lastQuery' = [eventType |-> ty, since |-> si, limit |-> li,
                   out |-> QueryOf(buf, ty, si, li), asked |-> TRUE]
  /\ UNCHANGED <<buf, capacity, pushed, clearedAt>>
  /\ UNCHANGED <<proc, bridgeVars, routerVars, gatewayVars, resolverVars, seenVars, listenerVars>>

\* the names of the event frames the gateway sends
GatewayEvents == {"connect.challenge", "tick", "chat"}

Forwards_All(ev) == TRUE

\* whether handleMessage hands the event frame named ev to onEvent: the
\* challenge branch returns before it
Forwards(ev) == ev # "connect.challenge"

\* handleMessage for an event frame named ev, with the buffer that the index
\* wiring gives the client as onEvent
GEventFrame(s, ev, hasNonce) ==
  /\ Len(arrivals) < MaxPushes
  /\ arrivals' = Append(arrivals, ev)
  /\ CASE ev = "connect.challenge" -> GChallengeClient(s, hasNonce)
       [] ev = "tick" -> GTickClient(s)
       [] OTHER -> /\ s \in DOMAIN gsock
                   /\ gsock[s].st \in {"open", "closing"}
                   /\ GCommit(GCur)
                   /\ UNCHANGED <<gws, gclosed, gbackoffMs, connectNonce, connectSent,
                                  tickTimer, watches, gtimers, gattempts, started>>
                   /\ UNCHANGED tickVars
  /\ IF Forwards(ev)
     THEN /\ buf' = PushEntry(buf, capacity, ev, now, pushed + 1)
          /\ pushed' = pushed + 1
          /\ lastQuery' = NoQuery
          /\ UNCHANGED <<capacity, clearedAt>>
     ELSE UNCHANGED bufferVars
  /\ UNCHANGED <<proc, resolverVars, discovered, handled, injection, listenerVars,
                 bridgeVars, routerVars>>

\* ------------------------------------------------- getClaudeDesktopResolver
\* the invocation returned undefined
NoReply == "undefined"

\* what readLastResponse() can read: nothing, the text that was there before
\* the injection, two texts of a new response
Texts == {"", "old", "A", "B"}

\* what readLastResponse() can read before the injection
BaselineTexts == {"", "old"}

\* how long past the interval a timer and a read can take
Latencies == {0, 1}

\* the responseTimeoutMs the caller supplies
ResponseTimeoutMs == MaxPolls * POLL_INTERVAL_MS

\* the last three of the reads q followed by t
Last3(q, t) == LastN(Append(q, t), STABLE_POLLS)

\* what the invocation returns when the loop ends at the deadline
AtDeadline(seen, base) == IF seen # "" /\ seen # base THEN seen ELSE NoReply

ResolverKeeps(st) ==
  /\ resolver' = st
  /\ UNCHANGED <<baseline, lastSeen, stableCount, deadline, reads, polls, reply>>

\* getClaudeDesktopResolver(ctx) up to its first await
ResolverStart(connected, hasContent) ==
  /\ resolver = "idle"
  /\ IF connected /\ hasContent
     THEN ResolverKeeps("baselining")
     ELSE /\ resolver' = "returned"
          /\ reply' = [text |-> NoReply, how |-> "early"]
          /\ UNCHANGED <<baseline, lastSeen, stableCount, deadline, reads, polls>>
  /\ UNCHANGED <<proc, bridgeVars, routerVars, gatewayVars, bufferVars, seenVars, listenerVars>>

\* the baseline read resolves with t: injectMessage is sent
BaselineRead(t) ==
  /\ resolver = "baselining"
  /\ resolver' = "injecting"
  /\ baseline' = t
  /\ UNCHANGED <<lastSeen, stableCount, deadline, reads, polls, reply>>
  /\ UNCHANGED <<proc, bridgeVars, routerVars, gatewayVars, bufferVars, seenVars, listenerVars>>

\* injectMessage resolves: the deadline is set and the loop is entered
Injected ==
  /\ resolver = "injecting"
  /\ resolver' = "looping"
  /\ deadline' = now + ResponseTimeoutMs
  /\ lastSeen' = baseline
  /\ stableCount' = 0
  /\ UNCHANGED <<baseline, reads, polls, reply>>
  /\ UNCHANGED <<proc, bridgeVars, routerVars, gatewayVars, bufferVars, seenVars, listenerVars>>

\* an awaited call of the bridge rejects: send() threw for want of an open
\* socket, the socket closed or failed, or the target answered with an error
AwaitRejects ==
  /\ resolver \in {"baselining", "injecting", "reading"}
  /\ ResolverKeeps("threw")
  /\ UNCHANGED <<proc, bridgeVars, routerVars, gatewayVars, bufferVars, seenVars, listenerVars>>

\* the loop head: past the deadline the invocation returns, before it the
\* interval is waited for and readLastResponse is sent
LoopHead(lat) ==
  /\ resolver = "looping"
  /\ IF now < deadline
     THEN /\ polls < MaxPolls + 1
          /\ now' = now + POLL_INTERVAL_MS + lat
          /\ resolver' = "reading"
          /\ polls' = polls + 1
          /\ UNCHANGED <<baseline, lastSeen, stableCount, deadline, reads, reply>>
     ELSE /\ resolver' = "returned"
          /\ reply' = [text |-> AtDeadline(lastSeen, baseline), how |-> "deadline"]
          /\ UNCHANGED <<now, baseline, lastSeen, stableCount, deadline, reads, polls>>
  /\ UNCHANGED <<pendingMessages, tracked, delivered, pruned, notifs, routed,
                 missed, sink>>
  /\ UNCHANGED <<proc, bridgeVars, gatewayVars, bufferVars, seenVars, listenerVars>>

\* if (stableCount >= STABLE_POLLS)
StableAfter(n) == n >= STABLE_POLLS

\* the read of a poll resolves with the text current
PollRead(current) ==
  /\ resolver = "reading"
  /\ reads' = Last3(reads, current)
  /\ IF current # "" /\ current # baseline
     THEN IF current = lastSeen
          THEN /\ stableCount' = stableCount + 1
               /\ IF StableAfter(stableCount + 1)
                  THEN /\ resolver' = "returned"
                       /\ reply' = [text |-> current, how |-> "stable"]
                  ELSE /\ resolver' = "looping"
                       /\ UNCHANGED reply
               /\ UNCHANGED lastSeen
          ELSE /\ lastSeen' = current
               /\ stableCount' = 0
               /\ resolver' = "looping"
               /\ UNCHANGED reply
     ELSE /\ resolver' = "looping"
          /\ UNCHANGED <<lastSeen, stableCount, reply>>
  /\ UNCHANGED <<baseline, deadline, polls>>
  /\ UNCHANGED <<proc, bridgeVars, routerVars, gatewayVars, bufferVars, seenVars, listenerVars>>

\* ---------------------------------------------------------- specifications
InitRouter ==
  /\ pendingMessages = <<>>
  /\ now = 0
  /\ tracked = <<>>
  /\ delivered = <<>>
  /\ pruned = FALSE
  /\ notifs = 0
  /\ routed = 0
  /\ missed = FALSE
  /\ sink = TRUE

InitBridge ==
  /\ sock = <<>>
  /\ ws = 0
  /\ nextId = 1
  /\ pending = EmptyMap
  /\ calls = EmptyMap
  /\ issued = 0
  /\ closed = FALSE
  /\ backoffMs = BACKOFF_START_MS
  /\ pingTimer = FALSE
  /\ responseCallback = FALSE
  /\ listeners = 0
  /\ timers = <<>>
  /\ discovering = [o \in Origins |-> 0]
  /\ attempts = 0

InitGateway ==
  /\ gsock = <<>>
  /\ gws = 0
  /\ gpending = EmptyMap
  /\ gcalls = EmptyMap
  /\ gissued = 0
  /\ gclosed = FALSE
  /\ gbackoffMs = BACKOFF_START_MS
  /\ connectNonce = FALSE
  /\ connectSent = FALSE
  /\ tickTimer = FALSE
  /\ watches = <<>>
  /\ lastTick = NoTime
  /\ tickIntervalMs = DEFAULT_TICK_MS
  /\ wdRuns = 0
  /\ gtimers = <<>>
  /\ gattempts = 0
  /\ started = FALSE

\* no invocation of the resolver yet
InitResolver ==
  /\ resolver = "idle"
  /\ baseline = ""
  /\ lastSeen = ""
  /\ stableCount = 0
  /\ deadline = 0
  /\ reads = <<>>
  /\ polls = 0
  /\ reply = [text |-> NoReply, how |-> "none"]

\* new EventBuffer(c)
InitBuffer(c) ==
  /\ buf = <<>>
  /\ capacity = c
  /\ pushed = 0
  /\ clearedAt = 0
  /\ lastQuery = NoQuery

\* the components outside the bridge, the router and the client, as the
\* programs construct them: const events = new EventBuffer()
\* nothing observed yet
InitSeen == discovered = NoDiscovery /\ handled = NoFrame /\ injection = NoInjection /\ arrivals = <<>>

\* new Map(): no listener registered
InitListeners ==
  /\ eventListeners = [m \in Methods |-> <<>>]
  /\ ons = 0
  /\ heard = <<>>

InitOthers ==
  InitBuffer(DEFAULT_CAPACITY) /\ InitResolver /\ InitSeen /\ InitListeners

\* either program, from its construction on
Init ==
  /\ proc \in {"extension", "mcp"}
  /\ InitBridge /\ InitRouter /\ InitGateway /\ InitOthers
  /\ callCap = MaxCalls

Next ==
  \/ proc = "extension" /\ StartAccount
  \/ proc = "extension" /\ Disconnect
  \/ proc = "extension" /\ Send
  \/ proc = "extension" /\ \E o \in Origins, res \in DiscoveryResults : DiscoverDone(o, res)
  \/ proc = "extension" /\ \E s \in 1..MaxSocks : SocketOpen(s)
  \/ proc = "extension" /\ \E s \in 1..MaxSocks : SocketFail(s)
  \/ proc = "extension" /\ \E s \in 1..MaxSocks : SocketClose(s)
  \/ proc = "extension" /\ \E s \in 1..MaxSocks : SocketError(s)
  \/ proc = "extension" /\ \E s \in 1..MaxSocks, id \in 1..callCap, e \in BOOLEAN :
                             Response(s, id, e)
  \/ proc = "extension" /\ \E i \in 1..MaxSocks : TimerFire(i)
  \/ proc = "mcp" /\ GStart
  \/ proc = "mcp" /\ GStop
  \/ proc = "mcp" /\ GRequest
  \/ proc = "mcp" /\ GTickTimeout
  \/ proc = "mcp" /\ \E i \in 1..MaxGSocks : GTimerFire(i)
  \/ proc = "mcp" /\ \E s \in 1..MaxGSocks : GOpen(s)
  \/ proc = "mcp" /\ \E s \in 1..MaxGSocks : GClose(s)
  \/ proc = "mcp" /\ \E s \in 1..MaxGSocks, n \in BOOLEAN : GChallenge(s, n)
  \/ proc = "mcp" /\ \E s \in 1..MaxGSocks, id \in 1..MaxCalls, ok \in BOOLEAN :
                       GResponse(s, id, ok)

Spec == Init /\ [][Next]_vars

\* the MCP server from its construction on
InitGatewayOnly ==
  /\ proc = "mcp"
  /\ InitBridge /\ InitRouter /\ InitGateway /\ InitOthers
  /\ callCap = MaxCalls

NextGateway ==
  \/ GStart
  \/ GStop
  \/ GRequest
  \/ GTickTimeout
  \/ Advance(CLOCK_STEP_MS)
  \/ \E i \in 1..MaxGSocks : GTimerFire(i)
  \/ \E s \in 1..MaxGSocks : GOpen(s)
  \/ \E s \in 1..MaxGSocks : GClose(s)
  \/ \E s \in 1..MaxGSocks, n \in BOOLEAN : GChallenge(s, n)
  \/ \E s \in 1..MaxGSocks, id \in 1..MaxCalls, ok \in BOOLEAN : GResponse(s, id, ok)

SpecGateway == InitGatewayOnly /\ [][NextGateway]_vars

\* the "close" event of a socket the client or the peer is closing
GCloseClosing == \E s \in DOMAIN gsock : gsock[s].st = "closing" /\ GClose(s)

\* the MCP server under the scheduling of its event loop: a timer that is set
\* runs, and a socket that is closing reports closed; what the gateway sends,
\* and whether it sends anything, is left open
SpecGatewayFair ==
  /\ SpecGateway
  /\ WF_vars(GTickTimeout)
  /\ WF_vars(\E i \in 1..MaxGSocks : GTimerFire(i))
  /\ WF_vars(GCloseClosing)

\* a tick interval a gateway advertises: half the long step of the clock
AdvertisedTick == CLOCK_STEP_MS \div 2

\* the client under a gateway that answers every handshake, with the clock
NextTick ==
  \/ GStart
  \/ GTickTimeout
  \/ \E i \in 1..MaxGSocks : GTimerFire(i)
  \/ \E s \in 1..MaxGSocks : GOpen(s)
  \/ \E s \in 1..MaxGSocks : GClose(s)
  \/ \E s \in 1..MaxGSocks : GChallenge(s, TRUE)
  \/ \E s \in 1..MaxGSocks : GTick(s)
  \/ \E s \in 1..MaxGSocks, id \in 1..MaxCalls, adv \in {NoInterval, AdvertisedTick} :
       GReply(s, id, TRUE, adv)
  \/ \E d \in {CLOCK_STEP_MS, CLOCK_STEP_MS + 1} : Advance(d)

SpecTick == InitGatewayOnly /\ [][NextTick]_vars

\* the extension with its observation pipeline and no other caller of the bridge
InitObs ==
  /\ proc = "extension"
  /\ InitBridge /\ InitRouter /\ InitGateway /\ InitOthers
  /\ callCap = MaxObsCalls

\* the target lists one page with a debugger URL
PageListed == [ok |-> TRUE, targets |-> <<[type |-> "page", url |-> TRUE]>>]

NextObs ==
  \/ sock = <<>> /\ ServiceStart
  \/ \E o \in Origins : DiscoverDone(o, PageListed)
  \/ \E s \in 1..MaxSocks : SocketOpen(s)
  \/ \E s \in 1..MaxSocks : SocketClose(s)
  \/ \E s \in 1..MaxSocks, id \in 1..callCap : Response(s, id, FALSE)
  \/ \E i \in 1..MaxSocks : TimerFire(i)
  \/ \E s \in 1..MaxSocks, p \in Payloads : BindingCalled(s, p)
  \/ \E ch \in Channels, f \in Senders : MessageReceived(ch, f)

SpecObs == InitObs /\ [][NextObs]_vars

\* the router by itself: injections tracked, notifications routed, time passing
NextRouter ==
  \/ \E ch \in Channels, f \in Senders : Track(ch, f)
  \/ \E p \in Payloads : Notify(p)
  \/ \E d \in {CLOCK_STEP_MS, CLOCK_STEP_MS + 1} : Advance(d)

SpecRouter == InitObs /\ [][NextRouter]_vars

\* an EventBuffer of any capacity from 1 to MaxCapacity, with the clock
InitEvents ==
  /\ proc = "mcp"
  /\ InitBridge /\ InitRouter /\ InitGateway
  /\ callCap = MaxCalls
  /\ \E c \in 1..MaxCapacity : InitBuffer(c)
  /\ InitResolver
  /\ InitSeen
  /\ InitListeners

NextEvents ==
  \/ \E ev \in EventNames : Push(ev)
  \/ Clear
  \/ \E ty \in QueryTypes, si \in QuerySinces, li \in QueryLimits : Query(ty, si, li)
  \/ ~lastQuery.asked /\ Advance(CLOCK_STEP_MS)

SpecEvents == InitEvents /\ [][NextEvents]_vars

\* one invocation of the resolver, the target answering as it likes
NextResolver ==
  \/ \E c, h \in BOOLEAN : ResolverStart(c, h)
  \/ \E t \in BaselineTexts : BaselineRead(t)
  \/ Injected
  \/ AwaitRejects
  \/ \E lat \in Latencies : LoopHead(lat)
  \/ \E t \in Texts : PollRead(t)
  \/ resolver = "reading" /\ Advance(CLOCK_STEP_MS)

\* the extension with its bridge, before any invocation of the resolver
InitPolling ==
  /\ proc = "extension"
  /\ InitBridge /\ InitRouter /\ InitGateway /\ InitOthers
  /\ callCap = MaxCalls

SpecResolver == InitPolling /\ [][NextResolver]_vars

\* connect() and the reconnects, against every discovery response
NextConnect ==
  \/ sock = <<>> /\ StartAccount
  \/ sock = <<>> /\ ServiceStart
  \/ \E o \in Origins, res \in ListedResults : DiscoverDoneSeen(o, res)
  \/ \E s \in 1..MaxSocks : SocketOpen(s)
  \/ \E s \in 1..MaxSocks : SocketFail(s)
  \/ \E s \in 1..MaxSocks : SocketClose(s)
  \/ \E i \in 1..MaxSocks : TimerFire(i)

SpecConnect == InitPolling /\ [][NextConnect]_vars

\* the call of kind k is waiting for the response to request id
Awaits(id, k) ==
  /\ LookupPending(pending, id) \in DOMAIN Live(calls)
  /\ calls[LookupPending(pending, id)].kind = k

\* an injectMessage is between its first send and its last response
Injecting == \E c \in DOMAIN Live(calls) : calls[c].kind \in {"inj1", "inj2", "inj3"}

\* one message at a time injected into the target, the target answering as it
\* likes
NextInject ==
  \/ sock = <<>> /\ StartAccount
  \/ DiscoverDone("account", PageListed)
  \/ SocketOpen(1)
  \/ SocketClose(1)
  \/ \E i \in 1..MaxSocks : TimerFire(i)
  \/ \E ch \in Channels, f \in Senders : ~Injecting /\ MessageReceived(ch, f)
  \/ \E id \in 1..callCap, r \in EvaluateReplies : EvaluateReply(1, id, r)
  \/ \E id \in 1..callCap, e \in BOOLEAN : ~Awaits(id, "inj1") /\ Response(1, id, e)

SpecInject == InitObs /\ [][NextInject]_vars

\* the bridge with its health ping: the account started, stopped and started
\* again, sockets closing and failing, reconnects, and pings answered with or
\* without an error
NextPing ==
  \/ (sock = <<>> \/ closed) /\ StartAccount
  \/ Disconnect
  \/ PingTick
  \/ \E o \in {"account", "timer"} : DiscoverDone(o, PageListed)
  \/ \E s \in 1..MaxSocks : SocketOpen(s)
  \/ \E s \in 1..MaxSocks : SocketClose(s)
  \/ \E s \in 1..MaxSocks : SocketError(s)
  \/ \E s \in 1..MaxSocks, id \in 1..callCap, e \in BOOLEAN : Response(s, id, e)
  \/ \E i \in 1..MaxSocks : TimerFire(i)

SpecPing == InitPolling /\ [][NextPing]_vars

\* the close event of a socket on which close() was called
ClosingCloses == \E s \in DOMAIN sock : sock[s].st = "closing" /\ SocketClose(s)

\* the same, every timer of the bridge firing when due and every socket that
\* close() was called on reporting closed; the target need not answer
SpecPingFair ==
  /\ SpecPing
  /\ WF_vars(PingTick)
  /\ WF_vars(\E i \in 1..MaxSocks : TimerFire(i))
  /\ WF_vars(ClosingCloses)

\* the MCP server as index.ts wires it, on its first socket: the client with
\* the buffer as its onEvent, the tools that request and query
NextDelivery ==
  \/ GStart
  \/ GRequest
  \/ GOpen(1)
  \/ GClose(1)
  \/ \E ev \in GatewayEvents, n \in BOOLEAN : GEventFrame(1, ev, n)
  \/ \E id \in 1..MaxCalls, ok \in BOOLEAN : GResponse(1, id, ok)
  \/ Query("chat", NoOption, NoOption)

SpecDelivery == InitGatewayOnly /\ [][NextDelivery]_vars

\* the service's bridge with its observer: the installation calls answered with
\* or without an error, the socket closing, the reconnects
NextReinstall ==
  \/ sock = <<>> /\ ServiceStart
  \/ \E o \in {"service", "timer"} : DiscoverDone(o, PageListed)
  \/ \E s \in 1..MaxSocks : SocketOpen(s)
  \/ \E s \in 1..MaxSocks : SocketClose(s)
  \/ \E s \in 1..MaxSocks, id \in 1..callCap, e \in BOOLEAN : Response(s, id, e)
  \/ \E i \in 1..MaxSocks : TimerFire(i)

SpecReinstall == InitObs /\ [][NextReinstall]_vars

\* process p is running: an exception that left a handler has ended it
Alive(p) == proc = p /\ ~handled.threw

\* both message handlers, given every kind of frame
NextFrames ==
  \/ Alive("extension") /\ StartAccount
  \/ Alive("extension") /\ Send
  \/ Alive("extension") /\ \E o \in Origins : DiscoverDone(o, PageListed)
  \/ Alive("extension") /\ \E s \in 1..MaxSocks : SocketOpen(s)
  \/ Alive("extension") /\ \E s \in 1..MaxSocks : SocketClose(s)
  \/ Alive("extension") /\ \E i \in 1..MaxSocks : TimerFire(i)
  \/ Alive("extension") /\ \E s \in 1..MaxSocks, id \in 1..callCap, e \in FrameErrors :
                               ResponseFrame(s, id, e)
  \/ Alive("extension") /\ \E s \in 1..MaxSocks, k \in MalformedKinds :
                               MalformedFrame(s, k)
  \/ Alive("mcp") /\ GStart
  \/ Alive("mcp") /\ GRequest
  \/ Alive("mcp") /\ \E i \in 1..MaxGSocks : GTimerFire(i)
  \/ Alive("mcp") /\ \E s \in 1..MaxGSocks : GOpen(s)
  \/ Alive("mcp") /\ \E s \in 1..MaxGSocks : GClose(s)
  \/ Alive("mcp") /\ \E s \in 1..MaxGSocks, n \in BOOLEAN : GChallenge(s, n)
  \/ Alive("mcp") /\ \E s \in 1..MaxGSocks, id \in 1..MaxCalls, ok \in BOOLEAN,
                         e \in FrameErrors \ {"none"} : GReplyFrame(s, id, ok, e)
  \/ Alive("mcp") /\ \E s \in 1..MaxGSocks, k \in MalformedKinds : GMalformedFrame(s, k)

SpecFrames == Init /\ [][NextFrames]_vars

\* events and responses arriving on one socket, listeners being registered
NextDispatch ==
  \/ sock = <<>> /\ StartAccount
  \/ Send
  \/ DiscoverDone("account", PageListed)
  \/ SocketOpen(1)
  \/ \E m \in Methods, l \in Listeners : On(m, l)
  \/ \E m \in Methods : EventFrame(1, m)
  \/ \E id \in 1..callCap, e \in {"none", "message"} : ResponseFrame(1, id, e)

SpecDispatch == InitPolling /\ [][NextDispatch]_vars

\* listeners registered and removed while the bridge connects, loses its
\* socket and reconnects, events arriving in between
NextListeners ==
  \/ sock = <<>> /\ StartAccount
  \/ \E o \in Origins : DiscoverDone(o, PageListed)
  \/ \E s \in 1..MaxSocks : SocketOpen(s)
  \/ \E s \in 1..MaxSocks : SocketClose(s)
  \/ \E i \in 1..MaxSocks : TimerFire(i)
  \/ \E m \in Methods, l \in Listeners : On(m, l)
  \/ \E m \in Methods, l \in Listeners : Off(m, l)
  \/ \E s \in 1..MaxSocks, m \in Methods : EventFrame(s, m)

SpecListeners == InitPolling /\ [][NextListeners]_vars

\* the same under the scheduling of the event loop: the invocation takes its
\* own steps; whether and when the target answers is left open
SpecResolverFair == SpecResolver /\ WF_vars(\E lat \in Latencies : LoopHead(lat))


\* ---------------------------------------------------------------- properties
\* the sockets of the bridge that opened and have not yet reported closed
OpenedSockets == {s \in DOMAIN sock : sock[s].st \in {"open", "closing"}}

\* the sockets of the client that have not yet reported closed
GLiveSockets == {s \in DOMAIN gsock : gsock[s].st # "closed"}

\* min(1000 * 2^k, 30000)
BackoffAfter(k) == Min(BACKOFF_START_MS * 2^k, BACKOFF_CAP_MS)

\* a promise the last step settled was settled once, and if a frame settled it,
\* the frame carried the id of the promise's request
MatchedById(cl) ==
  \A c \in DOMAIN cl :
    /\ cl[c].n <= 1
    /\ cl[c].why = "frame" => cl[c].by[2] = cl[c].id

\* in the step from pd to pd2, every entry that left the pending map left it
\* because its promise was settled in that step, and every promise a frame
\* settled had been the entry of the frame's id
OnlyMatchedSettled(pd, pd2, cl, cl2) ==
  /\ \A id \in DOMAIN pd \ DOMAIN pd2 :
       pd[id] \in DOMAIN cl2 /\ cl2[pd[id]].n = 1
  /\ \A c \in DOMAIN cl2 :
       (cl2[c].why = "frame" /\ c \in DOMAIN cl /\ cl[c].n = 0)
         => cl2[c].by[2] \in DOMAIN pd /\ pd[cl2[c].by[2]] = c

\* C1: on CdpBridge and on GatewayClient, the promise of a call is settled only
\* by the response frame that carries the id of the call's request, a promise is
\* settled at most once, and a response frame whose id is not in the pending map
\* settles no promise and leaves the pending map as it was.
ResponseMatchedById ==
  /\ [](MatchedById(calls) /\ MatchedById(gcalls))
  /\ [][OnlyMatchedSettled(pending, pending', calls, calls')]_vars
  /\ [][OnlyMatchedSettled(gpending, gpending', gcalls, gcalls')]_vars

\* a response settled the later call while the earlier call is still pending
OutOfOrderResponse ==
  \E c, d \in DOMAIN calls :
    /\ calls[c].why = "frame" /\ calls[c].st = "resolved"
    /\ calls[d].st = "pending"
    /\ calls[d].id < calls[c].id

\* C2: when a socket of CdpBridge or of GatewayClient reports closed, every
\* promise unsettled at that moment is rejected, once, the pending map is empty
\* and this.ws is null afterwards; and no promise stays unsettled on a socket
\* that has reported closed.
CloseRejectsAllPending ==
  /\ [](\A c \in DOMAIN calls :
          calls[c].st = "pending" =>
            sock[calls[c].sock].st # "closed" /\ c \in PendingCalls(pending))
  /\ [](\A c \in DOMAIN gcalls :
          gcalls[c].st = "pending" =>
            gsock[gcalls[c].sock].st # "closed" /\ c \in PendingCalls(gpending))
  /\ [][\A s \in OpenedSockets : sock'[s].st = "closed" =>
          /\ pending' = EmptyMap
          /\ ws' = 0
          /\ \A c \in DOMAIN Live(calls) :
               /\ c \in DOMAIN calls'
               /\ calls'[c].st = "rejected" /\ calls'[c].why = "close"
               /\ calls'[c].n = 1]_vars
  /\ [][\A s \in GLiveSockets : gsock'[s].st = "closed" =>
          /\ gpending' = EmptyMap
          /\ gws' = 0
          /\ \A c \in DOMAIN Live(gcalls) :
               /\ c \in DOMAIN gcalls'
               /\ gcalls'[c].st = "rejected" /\ gcalls'[c].why = "close"
               /\ gcalls'[c].n = 1]_vars

\* a close has just rejected two calls at once
TwoCallsRejectedByClose ==
  /\ Cardinality({c \in DOMAIN calls : calls[c].why = "close"}) >= 2
  /\ pending = EmptyMap
  /\ ws = 0

\* the step in which a connect() started by a reconnect timer throws
ReconnectAttemptFails ==
  \/ discovering'["timer"] < discovering["timer"] /\ Len(sock') = Len(sock)
  \/ \E s \in DOMAIN sock : /\ sock[s].origin = "timer"
                            /\ sock[s].st = "connecting"
                            /\ sock'[s].st = "closed"

\* C3: when a connect() started by a reconnect timer of CdpBridge fails and the
\* bridge is not torn down, a further attempt is under way or will be: a
\* reconnect timer is set, or a socket that will report closed exists, or another
\* timer-started connect() is in flight.
FailedReconnectReschedules ==
  [][ReconnectAttemptFails /\ ~closed' =>
       \/ Len(timers') > 0
       \/ discovering'["timer"] > 0
       \/ \E s \in DOMAIN sock' : sock'[s].st # "closed"]_vars

\* C4: the delay of the N-th reconnect scheduled since the last successful
\* opening (CdpBridge) or acknowledged handshake (GatewayClient) is
\* min(1000 * 2^(N-1), 30000), the next delay is kept accordingly, and a
\* successful opening or acknowledged handshake puts the next delay at 1000.
BackoffSchedule ==
  /\ [](/\ backoffMs = BackoffAfter(attempts)
        /\ \A i \in DOMAIN timers : timers[i].delay = BackoffAfter(timers[i].n - 1)
        /\ gbackoffMs = BackoffAfter(gattempts)
        /\ \A i \in DOMAIN gtimers : gtimers[i].delay = BackoffAfter(gtimers[i].n - 1)
        /\ \A c \in DOMAIN gcalls :
             gcalls[c].kind = "connect" /\ gcalls[c].st = "resolved"
               => gbackoffMs = BACKOFF_START_MS)
  /\ [][\A s \in DOMAIN sock :
          sock[s].st = "connecting" /\ sock'[s].st = "open"
            => backoffMs' = BACKOFF_START_MS]_vars

\* the sixth consecutive reconnect of the client waits the capped delay
CappedDelayScheduled ==
  \E i \in DOMAIN gtimers :
    gtimers[i].n = 6 /\ gtimers[i].delay = BACKOFF_CAP_MS

\* C5: at most one socket of a CdpBridge has opened and not yet reported closed.
SingleLiveSocket == Cardinality(OpenedSockets) <= 1

\* C6: while the bridge is torn down (disconnect() was the owner's last call),
\* it holds no open socket and runs no health-ping timer.
NoSocketAfterDisconnect == closed => ~isConnected /\ ~pingTimer

\* C7: one binding call pushed by the target removes at most one record from the
\* router's queue and invokes the response sink at most once.
OneRecordPerBindingCall ==
  [][notifs' = notifs + 1 =>
       /\ Len(delivered') <= Len(delivered) + 1
       /\ Len(pendingMessages') >= Len(pendingMessages) - 1]_vars

\* C8: as long as no record has been evicted as stale, the k-th invocation of the
\* sink carries the channel and the sender of the k-th tracked injection, and
\* when no notification found the queue empty, that is the k-th notification
\* routed; a notification routed when no record younger than the timeout
\* remains does not invoke the sink.
RoutedOldestFirst ==
  /\ [](~pruned =>
          /\ Len(delivered) <= Len(tracked)
          /\ delivered = SubSeq(tracked, 1, Len(delivered))
          /\ Len(pendingMessages) = Len(tracked) - Len(delivered)
          /\ ~missed => Len(delivered) = routed)
  /\ [][routed' > routed /\ PruneStale(pendingMessages, now) = <<>>
          => delivered' = delivered]_vars

\* two notifications were delivered to two different destinations, in order
TwoDeliveredInOrder ==
  /\ ~pruned /\ ~missed
  /\ routed = 2
  /\ Len(delivered) = 2
  /\ delivered[1] # delivered[2]

\* C9: the ids CdpBridge.send allocates only grow, whatever happens to the
\* connection, every id in use is below the counter, the ids of the unsettled
\* requests of either connection differ, and the frame that settles a promise
\* arrived on the socket the promise's request was sent on.
NoMisroutingAcrossReconnects ==
  /\ [](\A c \in DOMAIN calls : calls[c].id < nextId)
  /\ [](\A c, d \in DOMAIN calls : c # d => calls[c].id # calls[d].id)
  /\ [](\A c, d \in DOMAIN gcalls : c # d => gcalls[c].id # gcalls[d].id)
  /\ [](\A c \in DOMAIN calls :
          calls[c].why = "frame" => calls[c].by[1] = calls[c].sock)
  /\ [](\A c \in DOMAIN gcalls :
          gcalls[c].why = "frame" => gcalls[c].by[1] = gcalls[c].sock)
  /\ [][nextId' >= nextId /\ (DOMAIN pending' \ DOMAIN pending # {} => nextId' > nextId)]_vars

\* a call is pending on the second socket while the first socket, on which a
\* request was sent, can still deliver frames
OldSocketStillDelivering ==
  /\ Len(sock) >= 2
  /\ sock[1].st \in {"open", "closing"} /\ sock[1].sent # {}
  /\ \E c \in DOMAIN calls : calls[c].st = "pending" /\ calls[c].sock = 2

\* C10: when a socket of GatewayClient reports closed and stop() has not been
\* called, a reconnect timer is set with the current delay and the delay is
\* doubled up to the cap; a rejected handshake closes the socket; and a started
\* client that is not stopped always has a socket that will report closed or a
\* reconnect timer set.
GatewayKeepsReconnecting ==
  /\ [](started /\ ~gclosed => GLiveSockets # {} \/ Len(gtimers) > 0)
  /\ [](\A c \in DOMAIN gcalls :
          gcalls[c].kind = "connect" /\ gcalls[c].st = "rejected" /\ gcalls[c].why = "frame"
            => gsock[gcalls[c].sock].st \in {"closing", "closed"})
  /\ [][\A s \in GLiveSockets : gsock'[s].st = "closed" /\ ~gclosed =>
          /\ gtimers' = Append(gtimers, [delay |-> gbackoffMs, n |-> gattempts + 1])
          /\ gbackoffMs' = Min(2 * gbackoffMs, BACKOFF_CAP_MS)]_vars

\* the server rejected the handshake of a reconnect attempt
ReconnectHandshakeRejected ==
  \E c \in DOMAIN gcalls :
    /\ gcalls[c].kind = "connect"
    /\ gcalls[c].st = "rejected" /\ gcalls[c].why = "frame"
    /\ gcalls[c].sock >= 2
    /\ gattempts >= 1

\* the promises a step refused for want of an open socket
Refused(cl) == {c \in DOMAIN cl : cl[c].why = "notConnected"}

\* C11: a send() on CdpBridge or a request() on GatewayClient made while this.ws
\* is null or not open is rejected in the step of the call: no frame is written
\* to any socket, the pending map and the id counter stay as they were, and the
\* promise is never left unsettled for a later socket to serve.
NotConnectedFailsAtOnce ==
  /\ [](\A c \in Refused(calls) :
          calls[c].st = "rejected" /\ calls[c].n = 1 /\ c \notin PendingCalls(pending))
  /\ [](\A c \in Refused(gcalls) :
          gcalls[c].st = "rejected" /\ gcalls[c].n = 1 /\ c \notin PendingCalls(gpending))
  /\ [][Refused(calls') # {} =>
          sock' = sock /\ pending' = pending /\ nextId' = nextId]_vars
  /\ [][Refused(gcalls') # {} => gsock' = gsock /\ gpending' = gpending]_vars
  /\ [][issued' > issued /\ ~isConnected => Refused(calls') # {}]_vars
  /\ [][gissued' > gissued /\ ~gwOpen => Refused(gcalls') # {}]_vars

\* a call was refused on a bridge that had sent requests before and lost its socket
RefusedAfterClose ==
  /\ Refused(calls) # {}
  /\ nextId > 1
  /\ \E i \in DOMAIN timers : TRUE

\* C12: a request a tool makes is written to a socket only after the connect
\* handshake was acknowledged on that socket: every unsettled tool request
\* belongs to a socket whose handshake was acknowledged.
ToolRequestsNeedHandshake ==
  \A c \in DOMAIN gcalls :
    gcalls[c].kind = "user" /\ gcalls[c].st = "pending"
      => gsock[gcalls[c].sock].hello

\* C13: isConnected() of GatewayClient is true only if the connect handshake was
\* acknowledged on the current socket.
ConnectedMeansAcknowledged == GIsConnected => gsock[gws].hello

\* C14: GatewayClient writes a connect request to a socket at most once, only
\* in the step of a connect.challenge that carries a string nonce, and an open
\* current socket on which no connect request was written yet never finds
\* connectSent left set by an earlier socket, so its first such challenge sends.
OneHandshakePerSocket ==
  /\ [](\A s \in DOMAIN gsock : gsock[s].connects <= 1)
  /\ [](gwOpen /\ gsock[gws].connects = 0 => ~connectSent)
  /\ [][\A s \in DOMAIN gsock :
          gsock'[s].connects > gsock[s].connects
            => /\ \E t \in DOMAIN gsock : GChallenge(t, TRUE)
               /\ ~connectSent /\ connectSent' /\ connectNonce']_vars
  /\ [][\A s \in DOMAIN gsock :
          GChallenge(s, TRUE) /\ gws = s /\ gwOpen /\ gsock[s].connects = 0
            => gsock'[s].connects = 1]_vars

\* the connect request was written, once, to the socket a reconnect created
HandshakeSentAfterReconnect ==
  \E s \in DOMAIN gsock :
    /\ s >= 2
    /\ gsock[s].connects = 1
    /\ gattempts >= 1
    /\ connectSent /\ gws = s


\* the connect promise c is resolved by a reply in the step to cl2
HelloOkIn(cl, cl2, c) ==
  /\ c \in DOMAIN cl /\ c \in DOMAIN cl2
  /\ cl[c].n = 0 /\ cl2[c].n = 1
  /\ cl2[c].kind = "connect" /\ cl2[c].st = "resolved"

\* C15: GatewayClient takes the tick interval T anew from every successful
\* handshake reply (30000 ms when the reply carries none), stamps the time of the
\* reply and starts the watchdog; a firing of the watchdog more than 2 x T after
\* the last tick closes the socket, a firing within 2 x T of the last tick leaves
\* every socket as it was, and the close event of a socket of a client that is
\* not stopped schedules a reconnect.
TickWatchdog ==
  /\ [][\A c \in DOMAIN gcalls' :
          HelloOkIn(gcalls, gcalls', c)
            => /\ tickIntervalMs' = (IF gcalls'[c].by[3] = NoInterval
                                     THEN DEFAULT_TICK_MS ELSE gcalls'[c].by[3])
               /\ lastTick' = now'
               /\ tickTimer']_vars
  /\ [][wdRuns' > wdRuns
          => /\ (/\ ~gclosed /\ lastTick # NoTime
                 /\ now - lastTick > 2 * tickIntervalMs
                 /\ gws # 0 /\ gsock[gws].st \in {"connecting", "open"})
                  => gsock'[gws].st = "closing"
             /\ (lastTick # NoTime /\ now - lastTick <= 2 * tickIntervalMs)
                  => gsock' = gsock]_vars
  /\ [][\A s \in DOMAIN gsock :
          (~gclosed /\ gsock[s].st # "closed" /\ gsock'[s].st = "closed")
            => Len(gtimers') = Len(gtimers) + 1 /\ ~tickTimer']_vars

\* the watchdog fired one millisecond past twice the advertised interval and the
\* socket of the acknowledged handshake is closing
WatchdogClosedStalledSocket ==
  /\ wdRuns >= 1
  /\ ~gclosed
  /\ gws # 0 /\ gsock[gws].st = "closing" /\ gsock[gws].hello
  /\ tickIntervalMs = AdvertisedTick
  /\ now - lastTick = 2 * tickIntervalMs + 1

\* the socket of the client is open and its handshake is not acknowledged
Handshaking == gwOpen /\ ~gsock[gws].hello

\* C16: GatewayClient does not remain in the handshaking state forever: an open
\* socket whose handshake is not acknowledged is eventually left, by an
\* acknowledgement or by the end of the attempt.
HandshakeAttemptEnds == Handshaking ~> ~Handshaking

\* C17: once GatewayClient.stop() has run, the client stays stopped, holds no
\* socket and no tick watchdog timer, no step creates a socket, reopens one or
\* sets a reconnect timer, and every request() is rejected in the step of the
\* call without a pending entry.
StoppedStaysStopped ==
  /\ [](gclosed => gws = 0 /\ ~tickTimer)
  /\ [][gclosed
          => /\ gclosed'
             /\ Len(gsock') = Len(gsock)
             /\ \A s \in DOMAIN gsock :
                  gsock'[s].st # gsock[s].st => gsock'[s].st = "closed"
             /\ Len(gtimers') <= Len(gtimers)
             /\ DOMAIN gpending' \subseteq DOMAIN gpending
             /\ (gissued' > gissued => Refused(gcalls') # {})]_vars

\* the only reconnect timer ever set fired after stop() and created no socket,
\* and a request made after that was refused
StoppedTimerFiredAndRefused ==
  /\ gclosed
  /\ gattempts = 1
  /\ gtimers = <<>>
  /\ Len(gsock) = 1
  /\ \A s \in DOMAIN gsock : gsock[s].st = "closed"
  /\ Refused(gcalls) # {}

\* the step rejects, once and for the reason why, every promise unsettled in cl
\* and leaves the pending map pd2 empty
RejectsAllOnce(cl, cl2, pd2, why) ==
  /\ pd2 = EmptyMap
  /\ \A c \in DOMAIN Live(cl) :
       /\ c \in DOMAIN cl2
       /\ cl2[c].st = "rejected" /\ cl2[c].why = why /\ cl2[c].n = 1

\* the step settles no promise that was unsettled in cl
RejectsNothing(cl, cl2) ==
  \A c \in DOMAIN Live(cl) : c \in DOMAIN cl2 /\ cl2[c].st = "pending"

\* the part of C18 about the teardown step itself: disconnect() and stop()
\* reject every promise unsettled at that moment once, with the teardown error,
\* and empty the pending map
TeardownRejectsAllOnce ==
  /\ [][(closed' /\ ~closed) \/ (\E s \in DOMAIN sock : sock'[s].torn /\ ~sock[s].torn)
          => RejectsAllOnce(calls, calls', pending', "disconnect")]_vars
  /\ [][gclosed' /\ ~gclosed
          => RejectsAllOnce(gcalls, gcalls', gpending', "stopped")]_vars

\* the part of C18 about the stopped gateway socket: its close event rejects nothing
StoppedSocketCloseRejectsNothing ==
  [][\A s \in DOMAIN gsock :
       (gclosed /\ gsock[s].st # "closed" /\ gsock'[s].st = "closed")
         => RejectsNothing(gcalls, gcalls')]_vars

\* C18: CdpBridge.disconnect() and GatewayClient.stop() reject every call
\* pending at that moment once, with the teardown error, and empty the pending
\* map; the later close event of the socket the teardown closed rejects no
\* promise.
TeardownRejectsOnceOnly ==
  /\ TeardownRejectsAllOnce
  /\ StoppedSocketCloseRejectsNothing
  /\ [][\A s \in DOMAIN sock :
          (sock[s].torn /\ sock[s].st # "closed" /\ sock'[s].st = "closed")
            => RejectsNothing(calls, calls')]_vars

\* what disconnect() leaves: the flag set, no socket reference, no pending
\* entry, no ping timer
TornDown == closed /\ ws = 0 /\ pending = EmptyMap /\ ~pingTimer

\* what stop() leaves
GTornDown == gclosed /\ gws = 0 /\ gpending = EmptyMap /\ ~tickTimer

\* C19: teardown is idempotent: disconnect() and stop() each leave the
\* torn-down state, and a call made in the torn-down state can be made (nothing
\* is thrown) and leaves the closed flag, the socket reference, the sockets, the
\* pending map, the timers and the backoff as they are.
TeardownIdempotent ==
  /\ []((TornDown => ENABLED Disconnect) /\ (GTornDown => ENABLED GStop))
  /\ [][Disconnect
          => /\ TornDown'
             /\ TornDown => UNCHANGED <<closed, ws, sock, pending, timers, backoffMs,
                                        pingTimer>>]_vars
  /\ [][GStop
          => /\ GTornDown'
             /\ GTornDown => UNCHANGED <<gclosed, gws, gsock, gpending, gtimers,
                                         gbackoffMs, tickTimer>>]_vars

\* disconnect() has just torn down a socket and rejected two pending calls: the
\* state a second disconnect() is called in
TornDownWithCalls ==
  /\ TornDown
  /\ \E s \in DOMAIN sock : sock[s].torn /\ sock[s].st = "closing"
  /\ Cardinality({c \in DOMAIN calls : calls[c].why = "disconnect"}) = 2

\* C20: GatewayClient, started once by its owner, has at most one socket that
\* has not reported closed; a reconnect timer is outstanding only while no such
\* socket exists, and only one at a time; and a socket is created only by the
\* first start() or by the firing of a reconnect timer, every earlier socket
\* having reported closed.
GatewaySingleSocket ==
  /\ [](Cardinality(GLiveSockets) <= 1)
  /\ [](gtimers # <<>> => GLiveSockets = {} /\ Len(gtimers) = 1)
  /\ [][Len(gsock') > Len(gsock)
          => /\ \A s \in DOMAIN gsock : gsock[s].st = "closed"
             /\ \/ Len(gsock) = 0 /\ ~started /\ started'
                \/ Len(gtimers') < Len(gtimers)]_vars

\* the third socket of the client is open, the two before it have reported closed
ThirdSocketOpen ==
  /\ Len(gsock) = 3
  /\ gws = 3
  /\ gsock[3].st = "open"
  /\ gsock[1].st = "closed" /\ gsock[2].st = "closed"

\* the last query() was made without options
PlainQuery ==
  /\ lastQuery.asked
  /\ lastQuery.eventType = NoType
  /\ lastQuery.since = NoOption
  /\ lastQuery.limit = NoOption

\* C21: an EventBuffer of capacity C never holds more than C entries; it holds
\* as many as were pushed since the last clear(), C at most, and they are the
\* last pushed ones, oldest first; query() without options returns exactly them.
BufferKeepsLastPushed ==
  /\ Len(buf) <= capacity
  /\ Len(buf) = Min(capacity, pushed - clearedAt)
  /\ \A i \in DOMAIN buf : buf[i].n = pushed - Len(buf) + i
  /\ PlainQuery => lastQuery.out = buf

\* a query() without options on a buffer of capacity 2 after four pushes
\* returned the third and the fourth event
QueryAfterEviction ==
  /\ PlainQuery
  /\ capacity = 2 /\ pushed = 4 /\ clearedAt = 0
  /\ Len(lastQuery.out) = 2
  /\ lastQuery.out[1].n = 3 /\ lastQuery.out[2].n = 4

\* the entries of b whose name is ty, when an eventType was given, and whose
\* time is at least si, when a since was given, in the order of b
Matching(b, ty, si) ==
  SelectSeq(b, LAMBDA e : /\ (ty # NoType => e.event = ty)
                          /\ (si # NoOption => e.ts >= si))

\* the most recent li of q, when a limit was given
MostRecent(q, li) ==
  IF li = NoOption \/ Len(q) <= li THEN q ELSE SubSeq(q, Len(q) - li + 1, Len(q))

\* C22: query({eventType, since, limit}) returns, in buffer order, the entries
\* whose name equals eventType (when given) and whose timestamp is at least
\* since (when given), cut to the most recent limit of them (when given), for
\* every limit from 0 on; and the buffer is as it was.
QueryFiltersThenTruncates ==
  /\ [](lastQuery.asked
          => lastQuery.out = MostRecent(Matching(buf, lastQuery.eventType, lastQuery.since),
                                        lastQuery.limit))
  /\ [][lastQuery'.asked => buf' = buf]_vars

\* the same for the queries whose eventType is not the empty string and whose
\* limit is not 0
QueryWithPositiveLimit ==
  (lastQuery.asked /\ lastQuery.eventType # "" /\ lastQuery.limit # 0)
    => lastQuery.out = MostRecent(Matching(buf, lastQuery.eventType, lastQuery.since),
                                  lastQuery.limit)

\* the record is older than five minutes at time t
Stale(rec, t) == t - rec.at > CONTEXT_TIMEOUT_MS

\* C23: the queue of the ResponseRouter is ordered by injection time; after
\* every trackInjection and every notification routed no record older than
\* five minutes remains in it; and a notification is attributed only to a
\* record that is not older than five minutes at that time, the oldest such.
StaleNeverAttributed ==
  /\ [](\A i, j \in DOMAIN pendingMessages :
          i < j => pendingMessages[i].at <= pendingMessages[j].at)
  /\ [][(Len(tracked') > Len(tracked) \/ routed' > routed)
          => \A i \in DOMAIN pendingMessages' : ~Stale(pendingMessages'[i], now')]_vars
  /\ [][Len(delivered') > Len(delivered)
          => \E i \in DOMAIN pendingMessages :
               /\ ~Stale(pendingMessages[i], now)
               /\ \A j \in 1..(i - 1) : Stale(pendingMessages[j], now)
               /\ delivered'[Len(delivered')]
                    = <<pendingMessages[i].ch, pendingMessages[i].from>>
               /\ pendingMessages'
                    = SubSeq(pendingMessages, i + 1, Len(pendingMessages))]_vars

\* the first injection was evicted as stale and the notification went to the
\* second, tracked for another channel
SecondDeliveredAfterEviction ==
  /\ pruned
  /\ Len(tracked) = 2 /\ tracked[1] # tracked[2]
  /\ delivered = <<tracked[2]>>
  /\ pendingMessages = <<>>

\* ------------------------------------------------------------------- C24
\* C24: a text returned before the deadline differs from the baseline and
\* is what the last three polls all read: a poll that read another text, the
\* baseline text or nothing breaks the run.
StableMeansThreeConsecutive ==
  reply.how = "stable" =>
    /\ reply.text # baseline
    /\ reply.text # ""
    /\ reads = <<reply.text, reply.text, reply.text>>

\* what the loop does guarantee of a text returned before the deadline: it is
\* not the baseline, not empty, and what the last poll read
StableMeansLastRead ==
  reply.how = "stable" =>
    /\ reply.text # baseline
    /\ reply.text # ""
    /\ reads # <<>> /\ reads[Len(reads)] = reply.text
    /\ polls >= STABLE_POLLS + 1

\* ------------------------------------------------------------------- C25
\* the invocation is still waiting for a read although the deadline, a poll
\* interval and the latency of a timer lie behind it
StillReadingAfterTimeout ==
  resolver = "reading" /\ now > deadline + POLL_INTERVAL_MS + 1

\* the invocation ended with an exception in a poll, the deadline passed
ThrewAfterTimeout == resolver = "threw" /\ polls > 0 /\ now >= deadline

\* C25: once the timeout has elapsed the invocation has completed, and by
\* returning: the last text seen that differed from the baseline if there
\* was one, undefined otherwise.
CompletesOnceTimedOut ==
  /\ ~StillReadingAfterTimeout
  /\ ~ThrewAfterTimeout
  /\ reply.how = "deadline" =>
       /\ now >= deadline
       /\ reply.text = IF lastSeen \in {"", baseline} THEN NoReply ELSE lastSeen

\* the part that holds: an invocation that returns at the deadline returns
\* the last text seen that differed from the baseline, or undefined
DeadlineReturnsLastSeen ==
  reply.how = "deadline" =>
    /\ now >= deadline
    /\ reply.text = IF lastSeen \in {"", baseline} THEN NoReply ELSE lastSeen
    /\ reply.text # NoReply => polls > 0

\* C25 as a progress statement: an invocation that entered the loop returns
ResolverReturns == (resolver = "looping") ~> (resolver = "returned")

\* ------------------------------------------------------------------- C26
\* the target the claim has connect() select from the list l: the first of
\* type "page", the first listed if there is none, 0 if the list is empty
FirstPageOrFirst(l) ==
  LET pages == {i \in 1..Len(l) : l[i].type = "page"}
  IN IF pages # {} THEN CHOOSE i \in pages : \A j \in pages : i <= j
     ELSE IF l # <<>> THEN 1 ELSE 0

\* connect() went on from a discovery response that carried a list
Discovered == discovered.n > 0 /\ discovered.ok

\* C26 as stated: the socket is opened to the first page target, or to the
\* first listed target when none is a page, and connect() fails, opening no
\* socket, exactly when the list is empty.
ConnectFailsOnlyOnEmptyList ==
  Discovered =>
    /\ discovered.opened => discovered.target = FirstPageOrFirst(discovered.targets)
    /\ ~discovered.opened <=> discovered.targets = <<>>
    /\ ~discovered.opened => discovered.err # "none"

\* C26, amended: the socket is opened to the first page target, or to the
\* first listed target when none is a page, and connect() fails with the
\* no-target error, opening no socket, exactly when the list is empty or the
\* selected target carries no webSocketDebuggerUrl.
ConnectSelectsFirstPage ==
  Discovered =>
    LET l == discovered.targets
        t == FirstPageOrFirst(l)
    IN /\ discovered.opened => discovered.target = t
       /\ ~discovered.opened <=> (l = <<>> \/ ~l[t].url)
       /\ ~discovered.opened =>
            discovered.err = "No CDP target with webSocketDebuggerUrl found"
       /\ discovered.opened => discovered.err = "none"

\* a list without a page was answered by opening a socket to its first
\* target, and an empty list has failed a connect()
FallbackTargetOpened ==
  /\ Discovered /\ discovered.opened
  /\ Len(discovered.targets) = 2
  /\ \A i \in 1..2 : discovered.targets[i].type = "other"
  /\ discovered.target = 1
  /\ sock # <<>> /\ sock[Len(sock)].st = "connecting"

\* a later page target was preferred to an earlier target of another type
LaterPageOpened ==
  /\ Discovered /\ discovered.opened
  /\ discovered.target = 2

\* ------------------------------------------------------------------- C27
\* the last frame handled was a response carrying an error, for a call that
\* was waiting
ErrorResponseHandled ==
  handled.kind = "res" /\ handled.err # "none" /\ handled.matched

\* C27: a response that carries an error rejects the call it matches, with
\* the server's message when there is one, and never resolves it.
ErrorResponseRejects ==
  ErrorResponseHandled =>
    /\ handled.outcome = "rejected"
    /\ handled.err = "message" => handled.msg = "server"

\* the part that holds of the client: ok = false always rejects, with the
\* server's message or "unknown error"
GatewayErrorRejects ==
  ErrorResponseHandled /\ handled.side = "gateway" =>
    /\ handled.outcome = "rejected"
    /\ handled.msg = GErrorMessage(handled.err)

\* the part that holds of the bridge: an error with a non-empty message rejects
CdpMessageErrorRejects ==
  ErrorResponseHandled /\ handled.side = "cdp" /\ handled.err = "message" =>
    handled.outcome = "rejected" /\ handled.msg = "server"

\* an error object without a message resolved a call of the bridge
MessagelessErrorResolved ==
  /\ ErrorResponseHandled /\ handled.side = "cdp"
  /\ handled.err \in {"noMessage", "emptyMessage"}
  /\ handled.outcome = "resolved"

\* ------------------------------------------------------------------- C30
\* what the bridge holds of its connection and its calls
BridgeConnection == <<sock, ws, nextId, pending, Live(calls), issued, closed,
                      backoffMs, pingTimer, responseCallback, listeners, timers,
                      discovering, attempts>>

\* what the client holds of its connection and its calls
GatewayConnection == <<gsock, gws, gpending, Live(gcalls), gissued, gclosed,
                       gbackoffMs, connectNonce, connectSent, tickTimer, lastTick,
                       tickIntervalMs, gtimers, gattempts, started>>

\* this step handled a frame of a malformed kind
MalformedHandled ==
  handled'.n = handled.n + 1 /\ handled'.kind \in MalformedKinds

\* this step completed a call
CallCompleted ==
  \/ \E c \in DOMAIN calls' : calls'[c].st # "pending"
  \/ \E c \in DOMAIN gcalls' : gcalls'[c].st # "pending"

\* a malformed frame in both handlers: no exception leaves the handler, the
\* connection and the calls are as before, and a response that follows still
\* settles its call
MalformedStepDrops ==
  /\ MalformedHandled =>
       /\ ~handled'.threw
       /\ BridgeConnection' = BridgeConnection
       /\ GatewayConnection' = GatewayConnection
       /\ ~CallCompleted
  /\ ( /\ handled'.n = handled.n + 1
       /\ handled.kind \in MalformedKinds
       /\ handled'.kind = "res" /\ handled'.matched )
     => handled'.outcome \in {"resolved", "rejected"}

\* C30: a malformed frame is dropped by the bridge and by the client.
MalformedFrameDropped == [][MalformedStepDrops]_vars

\* the part that holds: the bridge drops every malformed frame, the client
\* every one but the JSON null
MalformedFrameDroppedButNull ==
  [][(MalformedHandled /\ handled'.side = "gateway" /\ handled'.kind = "null")
     \/ MalformedStepDrops]_vars

\* the JSON null has ended the client's handler with an exception
NullFrameThrew ==
  handled.side = "gateway" /\ handled.kind = "null" /\ handled.threw

\* a response was settled by the bridge right after a JSON null was dropped
SettledAfterNull ==
  /\ handled.side = "cdp" /\ handled.after = "null" /\ handled.kind = "res"
  /\ handled.outcome = "resolved"

\* ------------------------------------------------------------------- C28
\* this step handled an event frame
EventHandled == handled'.n = handled.n + 1 /\ handled'.kind = "event"

\* the invocations this step added
NewlyHeard == SelectSeq(heard', LAMBDA x : x.ev = handled'.n)

\* the earlier invocations this step kept
StillHeard == SelectSeq(heard', LAMBDA x : x.ev < handled'.n)

\* a listener threw while the last frame, an event, was delivered
LastEventThrew ==
  /\ handled.kind = "event"
  /\ \E i \in DOMAIN heard : heard[i].ev = handled.n /\ heard[i].threw

\* an event is delivered to every listener registered for it, those after a
\* listener that throws included, no exception leaves the handler, and the
\* response or the event that comes next is handled as ever
ThrowIsolatedStep ==
  /\ EventHandled =>
       LET q == eventListeners[handled'.method]
       IN /\ Len(NewlyHeard) = Len(q)
          /\ heard' = StillHeard \o NewlyHeard
          /\ \A i \in DOMAIN q :
               /\ NewlyHeard[i].l = q[i]
               /\ NewlyHeard[i].m = handled'.method
               /\ NewlyHeard[i].ev = handled'.n
          /\ ~handled'.threw
  /\ ( /\ handled'.n = handled.n + 1 /\ LastEventThrew
       /\ handled'.kind = "res" /\ handled'.matched )
     => /\ handled'.outcome = IF handled'.err = "message" THEN "rejected" ELSE "resolved"
        /\ ~handled'.threw

\* C28: a listener that throws stops neither the other listeners of the
\* event nor the handling of later messages, and its exception stays inside
\* the message handler.
ListenerThrowIsolated == [][ThrowIsolatedStep]_vars

\* the listener registered after a throwing one was invoked after it threw,
\* and the response that came next resolved its call
HeardAfterThrowThenResolved ==
  /\ handled.kind = "res" /\ handled.after = "event" /\ handled.outcome = "resolved"
  /\ \E i, j \in DOMAIN heard :
       /\ i < j
       /\ heard[i].ev = handled.n - 1 /\ heard[j].ev = handled.n - 1
       /\ heard[i].threw /\ ~heard[j].threw

\* ------------------------------------------------------------------- C29
\* the registry changed by one on() that added l to the end of the listeners
\* of m, or by one off() that removed l from them
OneOnOrOff ==
  \E m \in Methods, l \in Listeners :
    eventListeners' =
      [eventListeners EXCEPT ![m] = IF l \in Members(@)
                                    THEN SelectSeq(@, LAMBDA x : x # l)
                                    ELSE Append(@, l)]

\* the registry changes by on() and off() alone, never with the transport; an
\* event on whatever socket it arrives is delivered to the listeners then
\* registered for it, once each, in the order they were registered; and the
\* invocations follow the order of the frames
ListenersPersistStep ==
  /\ eventListeners' # eventListeners =>
       /\ OneOnOrOff
       /\ sock' = sock /\ ws' = ws
  /\ (sock' # sock \/ ws' # ws \/ closed' # closed) => eventListeners' = eventListeners
  /\ EventHandled =>
       /\ [i \in DOMAIN NewlyHeard |-> NewlyHeard[i].l] = eventListeners[handled'.method]
       /\ \A i \in DOMAIN NewlyHeard :
            /\ NewlyHeard[i].sock \in DOMAIN sock
            /\ sock[NewlyHeard[i].sock].st \in {"open", "closing"}
  /\ \A i, j \in DOMAIN heard' : i < j => heard'[i].ev <= heard'[j].ev

\* C29: listeners stay registered across closes and reconnects, are invoked
\* in registration order, and events are delivered in the order received.
ListenersSurviveReconnect == [][ListenersPersistStep]_vars

\* two listeners, each registered once, heard an event on the first socket
\* and, in the same order, another on the socket a reconnect opened
HeardInOrderAfterReconnect ==
  /\ ons = Cardinality(Listeners)
  /\ Len(sock) = 2 /\ sock[1].st = "closed" /\ sock[2].st = "open"
  /\ Len(heard) = 4
  /\ heard[1].sock = 1 /\ heard[2].sock = 1 /\ heard[3].sock = 2 /\ heard[4].sock = 2
  /\ heard[1].l = heard[3].l /\ heard[2].l = heard[4].l /\ heard[1].l # heard[2].l
  /\ heard[1].m = heard[3].m

\* ------------------------------------------------------------------- C31
\* the calls of kind k that are waiting
Waiting(k) == {c \in DOMAIN Live(calls) : calls[c].kind = k}

\* the content evaluation, then key-down, then key-up: a later step is sent
\* only when the earlier ones are no longer waiting, and with a later id
KeysFollowEvaluation ==
  /\ Waiting("inj2") # {} => Waiting("inj1") = {}
  /\ Waiting("inj3") # {} => Waiting("inj1") = {} /\ Waiting("inj2") = {}
  /\ injection.reply = "done" => injection.outcome = "resolved" /\ injection.keys = {"inj2"}
  /\ injection.reply = "refused" => injection.outcome = "rejected" /\ injection.keys = {}

\* C31: injectMessage fails, sending neither key-down nor key-up, when no
\* element matches the selector chain; when one matches it sends the content
\* evaluation, key-down and key-up in this order.
InjectFailsWithoutElement ==
  /\ injection.reply = "notFound" =>
       injection.outcome = "rejected" /\ injection.keys = {}
  /\ KeysFollowEvaluation

\* the reply that reports the missing element resolved the evaluation and
\* key-down was sent
KeysSentWithoutElement ==
  /\ injection.reply = "notFound"
  /\ injection.outcome = "resolved"
  /\ injection.keys = {"inj2"}

\* ------------------------------------------------------------------- C32
\* a ping was issued by this step
PingIssued ==
  \E c \in DOMAIN calls' : c \notin DOMAIN calls /\ calls'[c].kind = "ping"

\* a waiting ping was rejected by this step
PingRejected ==
  \E c \in DOMAIN Live(calls) :
    /\ calls[c].kind = "ping"
    /\ c \in DOMAIN calls'
    /\ calls'[c].st = "rejected"

\* a socket's close event was handled by this step
ClosedByEvent ==
  \E s \in DOMAIN sock : sock[s].st \in {"open", "closing"} /\ sock'[s].st = "closed"

PingStep ==
  /\ isConnected' => pingTimer'
  /\ PingIssued => isConnected /\ pingTimer
  /\ PingRejected => ~isConnected'
  /\ PingRejected /\ ws' # 0 => sock'[ws'].st = "closing"
  /\ ClosedByEvent =>
       /\ pending' = EmptyMap
       /\ Live(calls') = EmptyMap
       /\ ~closed => Len(timers') = Len(timers) + 1

ObserveKinds == {"obs1", "obs2", "obs3"}

\* socket s opened by this step, through the connect() of a reconnect timer
ReconnectedOn(s) ==
  /\ s \in DOMAIN sock
  /\ sock[s].st = "connecting"
  /\ sock[s].origin = "timer"
  /\ sock'[s].st = "open"

\* a call of kind k waits on socket s after this step
WaitsOn(k, s) ==
  \E c \in DOMAIN Live(calls') : calls'[c].kind = k /\ calls'[c].sock = s

\* a waiting installation call of kind k was settled as st by a response frame
\* of this step
InstallSettled(k, st) ==
  \E c \in DOMAIN Live(calls) :
    /\ calls[c].kind = k
    /\ c \in DOMAIN calls'
    /\ calls'[c].st = st
    /\ calls'[c].why = "frame"

ReinstallStep ==
  /\ responseCallback => responseCallback'
  /\ \A s \in DOMAIN sock :
       ReconnectedOn(s) /\ responseCallback => WaitsOn("obs1", s) /\ sock'[s].bound
  /\ \A k \in {"obs1", "obs2"} :
       InstallSettled(k, "resolved") /\ isConnected => WaitsOn(NextKind(k), ws)
  /\ InstallSettled("obs3", "resolved") => listeners' = listeners + 1
  /\ \A k \in ObserveKinds :
       InstallSettled(k, "rejected") =>
         /\ ws' = ws
         /\ \A s \in DOMAIN sock : sock'[s].st = sock[s].st
         /\ \A j \in ObserveKinds : ~WaitsOn(j, ws) \/ \E c \in DOMAIN Live(calls) :
                                       calls[c].kind = j /\ calls[c].sock = ws
         /\ listeners' = listeners

\* C33: after every successful reconnect of a bridge with a response callback
\* the binding, the observer and the event listener are installed again on the
\* new socket; a rejected installation call leaves the connection as it is and
\* the callback registered, so the next reconnect installs again.
ObserverReinstalled == [][ReinstallStep]_vars

\* no installation completed on the first socket, and the last installation
\* call waits on the socket a reconnect opened
ReinstallingAfterFailure ==
  /\ Len(sock) = 2
  /\ sock[1].st = "closed"
  /\ sock[2].st = "open"
  /\ listeners = 0
  /\ \E c \in DOMAIN Live(calls) : calls[c].kind = "obs3" /\ calls[c].sock = 2

\* ------------------------------------------------------------------- C34
\* the part that holds: an invocation that finds the bridge not connected, or
\* no content, returns undefined without a call to the bridge
NotConnectedReturnsUndefined ==
  reply.how = "early" => resolver = "returned" /\ reply.text = NoReply /\ polls = 0

\* C34: a connection lost while the resolver reads the baseline, injects or
\* polls, or missing when it starts, is not surfaced as an exception: the
\* invocation ends by returning undefined or the last differing text.
ConnectionLossNotSurfaced ==
  /\ resolver # "threw"
  /\ NotConnectedReturnsUndefined

\* the invocation ended with the exception of a rejected call of the bridge
ResolverThrew == resolver = "threw" /\ reply.how = "none"

\* ------------------------------------------------------------------- C35
\* the buffer holds, in the order of their numbers, entries of which the n-th
\* pushed is the n-th frame of fs, and as many were pushed as fs has frames
BufferFollows(fs) ==
  /\ pushed = Len(fs)
  /\ \A i \in 1..Len(buf) : buf[i].n \in 1..Len(fs) /\ buf[i].event = fs[buf[i].n]
  /\ \A i, j \in 1..Len(buf) : i < j => buf[i].n < buf[j].n
  /\ clearedAt = 0 /\ pushed <= capacity => Len(buf) = pushed

\* C35 as stated: every event frame the client receives is appended to the
\* buffer, once and in arrival order.
EveryEventBuffered == BufferFollows(arrivals)

\* the event frames received, the challenges of the handshake left out
Delivered == SelectSeq(arrivals, LAMBDA e : e # "connect.challenge")

\* the buffer grows by this step
BufferGrows == pushed' > pushed \/ Len(buf') > Len(buf)

\* C35, amended: every event frame other than connect.challenge that the
\* client receives is appended to the buffer, once and in arrival order, and
\* only the arrival of such a frame adds an entry to the buffer.
EveryForwardedEventBuffered ==
  /\ [](BufferFollows(Delivered))
  /\ [][BufferGrows => /\ Len(arrivals') = Len(arrivals) + 1
                       /\ arrivals'[Len(arrivals')] # "connect.challenge"
                       /\ pushed' = pushed + 1]_vars

\* a challenge, a tick and a chat event arrived and the buffer holds the tick
\* and the chat event
ChallengeNotBuffered ==
  /\ arrivals = <<"connect.challenge", "tick", "chat">>
  /\ Len(buf) = 2
  /\ buf[1].event = "tick" /\ buf[2].event = "chat"

\* ------------------------------------------------------------------- C36
\* the close event of socket s is handled by this step, s having been closed
\* by disconnect() and the bridge holding another socket since
StaleCloseOf(s) ==
  /\ sock[s].torn
  /\ sock[s].st = "closing"
  /\ sock'[s].st = "closed"
  /\ ws # 0
  /\ ws # s

\* C36: the close event of a socket that disconnect() discarded and a later
\* connect() replaced leaves the new connection alone: the socket reference,
\* the calls pending on the new socket, the health ping and the reconnect
\* timers are as they were.
StaleCloseHarmless ==
  [][\A s \in DOMAIN sock :
       StaleCloseOf(s) => /\ ws' = ws
                          /\ pending' = pending
                          /\ pingTimer' = pingTimer
                          /\ timers' = timers]_vars

\* the new socket is open, and the bridge has dropped its reference to it,
\* stopped the ping and scheduled a reconnect
NewSocketOrphaned ==
  /\ ws = 0
  /\ ~pingTimer
  /\ timers # <<>>
  /\ \E s \in DOMAIN sock : sock[s].st = "open"
  /\ \E s \in DOMAIN sock : sock[s].st = "closed"

\* ------------------------------------------------------------------- C37
\* a call of an injectMessage was rejected by the last step: the injectMessage
\* of the message tracked last failed
InjectFailed ==
  \E c \in DOMAIN calls :
    calls[c].kind \in {"inj1", "inj2", "inj3"} /\ calls[c].st = "rejected"

\* C37: when injectMessage fails, the record tracked for its message is
\* removed from the pending-injection queue, so the queue holds fewer records
\* than messages were tracked.
FailedInjectionUntracked ==
  InjectFailed => Len(pendingMessages) < Len(tracked)

\* the injection failed and the queue still holds a record for every message
\* tracked, the failed one last
FailedInjectionStillTracked ==
  /\ InjectFailed
  /\ Len(pendingMessages) = Len(tracked)
  /\ pendingMessages[Len(pendingMessages)].ch = tracked[Len(tracked)][1]

\* ------------------------------------------------------------------- C38
\* the pings waiting for their response on the socket the bridge holds
WaitingPings ==
  {c \in DOMAIN Live(calls) : calls[c].kind = "ping" /\ calls[c].sock = ws}

\* C38: the health ping detects a target that stopped answering on an open
\* socket and closes the socket: a ping still unanswered when the next one is
\* due is never followed by another ping on the same open socket, so the
\* pending map does not grow with every interval.
StallDetectedByPing == isConnected => Cardinality(WaitingPings) <= 1

\* C38 as progress: every call sent is eventually resolved or rejected
EveryCallSettles ==
  \A c \in 1..MaxCalls : (c \in DOMAIN Live(calls)) ~> (c \notin DOMAIN Live(calls))

\* two pings wait on the open socket of the bridge
PingsPileUp == isConnected /\ Cardinality(WaitingPings) = 2

\* ------------------------------------------------------------------- C39
\* the interval timers running are at most one, the one the field holds, and
\* it was started on the handshake of the socket the client holds, which has
\* not reported closed since
WatchdogOfCurrentSocket ==
  /\ Len(watches) <= 1
  /\ tickTimer <=> watches # <<>>
  /\ watches # <<>> =>
       /\ gws # 0
       /\ watches[1] = gws
       /\ gsock[gws].st \in {"open", "closing"}
       /\ gsock[gws].hello
       /\ ~gclosed

\* the watchdog closed socket s by this step
WatchdogCloses(s) ==
  /\ wdRuns' > wdRuns
  /\ gsock[s].st = "open"
  /\ gsock'[s].st = "closing"

\* C39: a tick watchdog timer runs only between a successful handshake and
\* the next close or stop of the same socket, at most one runs at any time,
\* and the watchdog closes no socket but the one it was started for.
WatchdogBoundToSocket ==
  /\ [](WatchdogOfCurrentSocket)
  /\ [][\A s \in DOMAIN gsock : WatchdogCloses(s) => watches = <<s>>]_vars

\* the watchdog is running for the socket of a reconnect after it closed the
\* socket before
WatchdogRearmedAfterTimeout ==
  /\ wdRuns >= 1
  /\ Len(gsock) >= 2
  /\ gsock[1].st = "closed"
  /\ watches = <<gws>>
  /\ gws >= 2


=============================================================================
